---------------------------- MODULE Spec2Model ----------------------------
(***************************************************************************)
(* pass-tui: the password table (PassTable) and the store helpers          *)
(* (passutils) it drives.                                                  *)
(*                                                                         *)
(* Strings are sequences of character codes, so that splitting, joining    *)
(* and Python's string ordering are computed and not assumed.  The store   *)
(* is the set of relative entry paths p for which the file <p>.gpg exists  *)
(* under the store directory.  A directory exists exactly when it is the   *)
(* store directory or an entry lies below it: empty directories have no    *)
(* effect on any operation modelled here (os.makedirs is called with       *)
(* exist_ok and the conflict check only ever looks for files).             *)
(***************************************************************************)
EXTENDS Integers, Sequences, FiniteSets

VARIABLES
    pass_dir,    \* the store directory's own name (get_passstore_path, cached)
    store,       \* relative paths of the .gpg files in the store
    rows,        \* the DataTable's rows, in display order
    cursor,      \* DataTable.cursor_row (0-based)
    mounted,     \* on_mount has run
    crashed,     \* an exception escaped a handler: the application is gone
    dialog,      \* the modal screen on top of the table, with what it holds
    hist         \* what the last step did and notified (history, read by the
                 \* properties; every step starts it afresh)

vars == <<pass_dir, store, rows, cursor, mounted, crashed, dialog, hist>>

-----------------------------------------------------------------------------
(* Bounds of the model.                                                    *)

\* most entries the store holds at once
MaxEntries == 3

\* longest path given to from_str on its own
MaxPathLen == 6

-----------------------------------------------------------------------------
(* Characters and strings.                                                 *)

\* "/" : the separator of str.split and os.path.join
SepChar == 47
\* "." : the prefix of a hidden file or directory
DotChar == 46

Empty == <<>>

\* Python's str < str: lexicographic on code points
StrLess(a, b) ==
    \E k \in 1..Len(b) :
        /\ \A i \in 1..(k - 1) : i <= Len(a) /\ a[i] = b[i]
        /\ (k > Len(a) \/ a[k] < b[k])

RECURSIVE SplitFrom(_, _, _, _)
SplitFrom(s, i, cur, acc) ==
    IF i > Len(s) THEN Append(acc, cur)
    ELSE IF s[i] = SepChar THEN SplitFrom(s, i + 1, Empty, Append(acc, cur))
    ELSE SplitFrom(s, i + 1, Append(cur, s[i]), acc)

\* path.split("/")
split(path) == SplitFrom(path, 1, Empty, <<>>)

\* os.path.join(a, b) (posixpath)
os_path_join(a, b) ==
    IF b # Empty /\ b[1] = SepChar THEN b
    ELSE IF a = Empty \/ a[Len(a)] = SepChar THEN a \o b
    ELSE a \o <<SepChar>> \o b

\* os.path.join(*parts), parts non-empty
RECURSIVE os_path_join_all(_)
os_path_join_all(parts) ==
    IF Len(parts) = 1 THEN parts[1]
    ELSE os_path_join(os_path_join_all(SubSeq(parts, 1, Len(parts) - 1)),
                      parts[Len(parts)])

\* os.path.basename(path)
os_path_basename(path) == LET sp == split(path) IN sp[Len(sp)]

\* os.path.dirname(path) for a relative path without a trailing separator
os_path_dirname(path) ==
    LET sp == split(path) IN
    IF Len(sp) = 1 THEN Empty
    ELSE os_path_join_all(SubSeq(sp, 1, Len(sp) - 1))

-----------------------------------------------------------------------------
(* PassTuple: <<profile, cats, url>>.                                      *)

\* the first segment of two taken for the category
from_str_two_in_cats(path) ==
    LET split_path == split(path) IN
    IF Len(split_path) = 1 THEN <<Empty, Empty, split_path[1]>>
    ELSE << Empty,
            os_path_join_all(SubSeq(split_path, 1, Len(split_path) - 1)),
            split_path[Len(split_path)] >>

\* PassTuple.from_str
from_str(path) ==
    LET split_path == split(path) IN
    CASE Len(split_path) = 1 -> <<Empty, Empty, split_path[1]>>
      [] Len(split_path) = 2 -> <<split_path[1], Empty, split_path[2]>>
      [] OTHER -> << split_path[1],
                     os_path_join_all(SubSeq(split_path, 2, Len(split_path) - 1)),
                     split_path[Len(split_path)] >>

\* the name alone
tuple_str_name_only(t) == t[3]

\* PassTuple.__str__
tuple_str(t) == os_path_join(os_path_join(t[1], t[2]), t[3])

\* PassTuple.fs_path, relative to the store directory and without ".gpg"
fs_path(t) == os_path_join(os_path_join(t[1], t[2]), t[3])

\* the order of PassTuple (a NamedTuple of three str): Python's tuple <
TupleLess(s, t) ==
    \/ StrLess(s[1], t[1])
    \/ s[1] = t[1] /\ StrLess(s[2], t[2])
    \/ s[1] = t[1] /\ s[2] = t[2] /\ StrLess(s[3], t[3])


-----------------------------------------------------------------------------
(* Listing the store.                                                      *)

\* is_hidden
is_hidden(path) ==
    LET base == os_path_basename(path) IN base # Empty /\ base[1] = DotChar

\* get_passwords lists the file <p>.gpg iff neither the file nor the directory
\* os.walk found it in (root_dir) is hidden.  The filtered dirs list is bound
\* to a new name, so os.walk still descends into hidden directories, and only
\* the last component of root_dir is tested.  For an entry at the top of the
\* store root_dir is the store directory itself.
listed(p, dir) ==
    LET root_dir == IF os_path_dirname(p) = Empty THEN dir
                    ELSE os_path_join(dir, os_path_dirname(p))
    IN
    /\ ~is_hidden(root_dir)
    /\ ~is_hidden(os_path_basename(p))

\* all enumerations of a finite set: the sequences that hold each of its
\* elements once
RECURSIVE Enumerations(_)
Enumerations(S) ==
    IF S = {} THEN { <<>> }
    ELSE UNION { { <<x>> \o f : f \in Enumerations(S \ {x}) } : x \in S }

\* get_passwords: the list it returns is in os.walk's order, which the file
\* system decides; every order is possible
get_passwords(st, dir) == Enumerations({ p \in st : listed(p, dir) })

\* categorize_passwords
categorize_passwords(passwords) ==
    [ k \in 1..Len(passwords) |-> from_str(passwords[k]) ]

\* one step of a stable insertion sort of PassTuples: x goes after the
\* elements that are not greater
RECURSIVE InsertTuple(_, _)
InsertTuple(acc, x) ==
    IF acc = <<>> THEN <<x>>
    ELSE IF TupleLess(x, acc[Len(acc)])
         THEN Append(InsertTuple(SubSeq(acc, 1, Len(acc) - 1), x), acc[Len(acc)])
         ELSE Append(acc, x)

\* the list as it came, with no sorting
sorted_as_listed(tuples) == tuples

\* sorted(...) of a list of PassTuples
RECURSIVE sorted(_)
sorted(tuples) ==
    IF tuples = <<>> THEN <<>>
    ELSE InsertTuple(sorted(SubSeq(tuples, 1, Len(tuples) - 1)),
                     tuples[Len(tuples)])

\* the categorised list without the call of sorted
get_categorized_passwords_unsorted(st, dir) ==
    { categorize_passwords(passwords) : passwords \in get_passwords(st, dir) }

\* get_categorized_passwords: the lists it can return, one for each order
\* get_passwords can list the store in
get_categorized_passwords(st, dir) ==
    { sorted(categorize_passwords(passwords)) : passwords \in get_passwords(st, dir) }

-----------------------------------------------------------------------------
(* Rows: [checkbox, tuple, label].                                         *)

\* a fresh row that comes checked
NewRowChecked(t) == [checkbox |-> TRUE, tuple |-> t, label |-> 0]

\* add_row(RowCheckbox(), *new_tuple): a fresh row, unchecked, no label yet
NewRow(t) == [checkbox |-> FALSE, tuple |-> t, label |-> 0]

\* a fresh checkbox for a row that stays
KeptRowFresh(old_pass, t) == [checkbox |-> FALSE, tuple |-> t, label |-> 0]

\* add_row(old_pass.checkbox, *new_tuple): the old row's checkbox is kept
KeptRow(old_pass, t) == [checkbox |-> old_pass.checkbox, tuple |-> t, label |-> 0]

\* one step of a stable insertion sort of rows on (row[1], row[2], row[3])
RECURSIVE InsertRow(_, _)
InsertRow(acc, r) ==
    IF acc = <<>> THEN <<r>>
    ELSE IF TupleLess(r.tuple, acc[Len(acc)].tuple)
         THEN Append(InsertRow(SubSeq(acc, 1, Len(acc) - 1), r), acc[Len(acc)])
         ELSE Append(acc, r)

\* DataTable.sort(key=lambda row: (row[1], row[2], row[3])): stable, and the
\* cursor keeps its index
RECURSIVE sort(_)
sort(rs) ==
    IF rs = <<>> THEN <<>>
    ELSE InsertRow(sort(SubSeq(rs, 1, Len(rs) - 1)), rs[Len(rs)])

\* the value held above the lower bound only
clamp_from_below(value, minimum, maximum) ==
    IF value < minimum THEN minimum ELSE value

\* geometry.clamp as DataTable uses it to validate cursor_coordinate: the
\* bounds may come in reverse order (an empty table gives 0 and -1)
clamp(value, minimum, maximum) ==
    LET lo == IF minimum > maximum THEN maximum ELSE minimum
        hi == IF minimum > maximum THEN minimum ELSE maximum
    IN  IF value < lo THEN lo ELSE IF value > hi THEN hi ELSE value

\* the cursor set one row too far
move_cursor_next(row_count, row) == clamp(row + 1, 0, row_count - 1)

\* DataTable.move_cursor(row=...) on a table of row_count rows
move_cursor(row_count, row) == clamp(row, 0, row_count - 1)

\* the increment left out
DiffNewLost(cursor_diff) == cursor_diff

\* cursor_diff += 1 (a listed entry sorts before the old row looked at)
DiffNew(cursor_diff) == cursor_diff + 1

\* the decrement left out
DiffGoneLost(cursor_diff) == cursor_diff

\* cursor_diff -= 1 (the old row looked at is no longer listed)
DiffGone(cursor_diff) == cursor_diff - 1

\* the first while loop of sync: the merge of new_passes and old_passes
RECURSIVE SyncLoop(_, _, _, _, _, _)
SyncLoop(new_passes, old_passes, i, j, synced_passes, cursor_diff) ==
    IF i < Len(new_passes) /\ j < Len(old_passes)
    THEN LET new_tuple == new_passes[i + 1]
             old_pass == old_passes[j + 1]
         IN  IF TupleLess(new_tuple, old_pass.tuple)
             THEN SyncLoop(new_passes, old_passes, i + 1, j,
                           Append(synced_passes, NewRow(new_tuple)),
                           DiffNew(cursor_diff))
             ELSE IF TupleLess(old_pass.tuple, new_tuple)
             THEN SyncLoop(new_passes, old_passes, i, j + 1,
                           synced_passes, DiffGone(cursor_diff))
             ELSE SyncLoop(new_passes, old_passes, i + 1, j + 1,
                           Append(synced_passes, KeptRow(old_pass, new_tuple)),
                           cursor_diff)
    ELSE [i |-> i, synced_passes |-> synced_passes, cursor_diff |-> cursor_diff]

\* the listed entries left over not added
SyncTailNone(new_passes, i) == <<>>

\* the second while loop of sync: the listed entries left over
SyncTail(new_passes, i) ==
    [ k \in 1..(Len(new_passes) - i) |-> NewRow(new_passes[i + k]) ]

\* the old rows all kept, with fresh rows after them for the listed entries
\* that had none
sync_keeps_old_rows(rs, old_cursor, new_passes) ==
    LET fresh == SelectSeq(new_passes,
                           LAMBDA t : \A k \in 1..Len(rs) : rs[k].tuple # t)
        synced_passes == rs \o [ k \in 1..Len(fresh) |-> NewRow(fresh[k]) ]
    IN  [ rows |-> synced_passes,
          cursor |-> move_cursor(Len(synced_passes), old_cursor) ]

\* PassTable.sync, given the list new_passes that get_categorized_passwords
\* returned to it
sync(rs, old_cursor, new_passes) ==
    LET m == SyncLoop(new_passes, rs, 0, 0, <<>>, 0)
        synced_passes == m.synced_passes \o SyncTail(new_passes, m.i)
    IN  [ rows |-> synced_passes,
          cursor |-> move_cursor(Len(synced_passes), old_cursor + m.cursor_diff) ]

\* the labels left as add_row made them
update_enumeration_skipped(rs) == rs

\* PassTable.update_enumeration
update_enumeration(rs) == [ k \in 1..Len(rs) |-> [rs[k] EXCEPT !.label = k] ]

\* PassTable.sort_sync_enumerate, given the list new_passes that
\* get_categorized_passwords returned to its sync
sort_sync_enumerate(rs, cur, new_passes) ==
    LET s == sync(sort(rs), cur, new_passes)
    IN  [ rows |-> update_enumeration(s.rows), cursor |-> s.cursor ]


-----------------------------------------------------------------------------
(* Reading the table.                                                      *)

\* DataTable.is_valid_coordinate for the cursor's row
ValidCursor(rs, cur) == 0 <= cur /\ cur < Len(rs)

\* the indices (row keys, in display order) of the checked rows from k on
RECURSIVE CheckedFrom(_, _)
CheckedFrom(rs, k) ==
    IF k > Len(rs) THEN <<>>
    ELSE (IF rs[k].checkbox THEN <<k>> ELSE <<>>) \o CheckedFrom(rs, k + 1)

\* PassTable.selected_rows, consumed to the end: the checked rows, or the row
\* at the cursor when none is checked.  current_row raises CellDoesNotExist
\* when the cursor is on no row.  The rows are given by their index.
selected_rows(rs, cur) ==
    LET checked == CheckedFrom(rs, 1) IN
    IF checked # <<>> THEN [raised |-> FALSE, val |-> checked]
    ELSE IF ValidCursor(rs, cur) THEN [raised |-> FALSE, val |-> <<cur + 1>>]
    ELSE [raised |-> TRUE, val |-> <<>>]

\* PassTable.selected_tuples, consumed to the end
selected_tuples(rs, cur) ==
    LET checked == CheckedFrom(rs, 1) IN
    IF checked # <<>>
    THEN [raised |-> FALSE, val |-> [k \in 1..Len(checked) |-> rs[checked[k]].tuple]]
    ELSE IF ValidCursor(rs, cur) THEN [raised |-> FALSE, val |-> <<rs[cur + 1].tuple>>]
    ELSE [raised |-> TRUE, val |-> <<>>]

\* "/".join of a list of fragments
RECURSIVE SlashJoin(_)
SlashJoin(frags) ==
    IF frags = <<>> THEN Empty
    ELSE IF Len(frags) = 1 THEN frags[1]
    ELSE frags[1] \o <<SepChar>> \o SlashJoin(Tail(frags))

\* every field joined by "/", the empty ones as well
row_str_every_field(t) == SlashJoin(<<t[1], t[2], t[3]>>)

\* PassRow.__str__: the non-empty fields joined by "/"
row_str(t) ==
    SlashJoin( (IF t[1] # Empty THEN <<t[1]>> ELSE <<>>)
            \o (IF t[2] # Empty THEN <<t[2]>> ELSE <<>>)
            \o (IF t[3] # Empty THEN <<t[3]>> ELSE <<>>) )

\* the index (0-based) of the first row from k on whose identifier is
\* pass_tuple, or -1
RECURSIVE FirstMatch(_, _, _)
FirstMatch(rs, pass_tuple, k) ==
    IF k > Len(rs) THEN -1
    ELSE IF rs[k].tuple = pass_tuple THEN k - 1
    ELSE FirstMatch(rs, pass_tuple, k + 1)

\* the cursor put on the last row whose identifier matches
select_last_match(rs, cur, pass_str) ==
    LET pass_tuple == from_str(pass_str)
        hits == { k \in 1..Len(rs) : rs[k].tuple[3] = pass_tuple[3] }
    IN  IF hits = {} THEN cur
        ELSE move_cursor(Len(rs), (CHOOSE k \in hits : \A h \in hits : h <= k) - 1)

\* PassTable.select: the cursor after it
select(rs, cur, pass_str) ==
    LET row == FirstMatch(rs, from_str(pass_str), 1) IN
    IF row >= 0 THEN move_cursor(Len(rs), row) ELSE cur

-----------------------------------------------------------------------------
(* The store operations of passutils.                                      *)

\* os.path.exists of a directory of the store
DirExists(st, d) ==
    \/ d = Empty
    \/ \E p \in st : \E n \in 1..Len(split(p)) - 1 :
          os_path_join_all(SubSeq(split(p), 1, n)) = d

\* passutils.move_has_conflicts
move_has_conflicts(st, pass_tuples, dst, keep_cats) ==
    IF ~DirExists(st, dst) THEN FALSE
    ELSE IF keep_cats
    THEN \E k \in 1..Len(pass_tuples) :
            LET t == pass_tuples[k] IN
            os_path_join(os_path_join(os_path_join(dst, t[1]), t[2]), t[3]) \in st
    ELSE \E k \in 1..Len(pass_tuples) :
            os_path_join(dst, pass_tuples[k][3]) \in st

\* the file moved over whatever is in dst under its name
passutils_move_overwriting(st, pass_tuple, dst) ==
    LET src == fs_path(pass_tuple)
        real_dst == os_path_join(dst, os_path_basename(src))
    IN  IF src \in st
        THEN [ok |-> TRUE, store |-> (st \ {src}) \cup {real_dst}]
        ELSE [ok |-> FALSE, store |-> st]

\* passutils.move: shutil.move of the entry's file into the directory dst,
\* made first.  It raises when the file is gone or when a file of that name
\* is already in dst, and then nothing has moved.
passutils_move(st, pass_tuple, dst) ==
    LET src == fs_path(pass_tuple)
        real_dst == os_path_join(dst, os_path_basename(src))
    IN  IF src \in st /\ real_dst \notin st
        THEN [ok |-> TRUE, store |-> (st \ {src}) \cup {real_dst}]
        ELSE [ok |-> FALSE, store |-> st]

\* the file reported removed and left in place
rm_not_removed(st, pass_tuple) ==
    IF fs_path(pass_tuple) \in st
    THEN { [ok |-> TRUE, store |-> st], [ok |-> FALSE, store |-> st] }
    ELSE { [ok |-> FALSE, store |-> st] }

\* passutils.rm: os.remove(fs_path) in a try whose bare except returns False.
\* The outcomes: the file is removed and True is returned; or os.remove
\* raises and False is returned, the store as it was.  It always raises when
\* the file is gone, and it can raise with the file in place (the directory
\* is not writable, the path is a directory).
rm(st, pass_tuple) ==
    IF fs_path(pass_tuple) \in st
    THEN { [ok |-> TRUE, store |-> st \ {fs_path(pass_tuple)}],
           [ok |-> FALSE, store |-> st] }
    ELSE { [ok |-> FALSE, store |-> st] }

\* the file copied under the new name and left under the old one
rename_copying(st, pass_tuple, new_name) ==
    LET old_path == fs_path(pass_tuple)
        new_path == os_path_join(os_path_join(pass_tuple[1], pass_tuple[2]),
                                 new_name)
    IN  IF old_path \in st
        THEN [ok |-> TRUE, store |-> st \cup {new_path}]
        ELSE [ok |-> FALSE, store |-> st]

\* passutils.rename: os.renames makes the directories of new_path, then
\* os.rename (rename(2)) puts the file there, replacing a file already at
\* new_path; it raises when the file at old_path is gone, and then no file
\* has changed.
rename(st, pass_tuple, new_name) ==
    LET old_path == fs_path(pass_tuple)
        new_path == os_path_join(os_path_join(pass_tuple[1], pass_tuple[2]),
                                 new_name)
    IN  IF old_path \in st
        THEN [ok |-> TRUE, store |-> (st \ {old_path}) \cup {new_path}]
        ELSE [ok |-> FALSE, store |-> st]

-----------------------------------------------------------------------------
(* PassTable.move and PassTable.delete_selected.                           *)

\* where move sends a row's entry
MoveDir(t, dst, keep_cats) == IF keep_cats THEN os_path_join(dst, t[2]) ELSE dst

\* what row.update is given after the entry has moved
MovedTuple(t, dst, keep_cats) ==
    IF keep_cats THEN from_str(os_path_join(os_path_join(dst, t[2]), t[3]))
    ELSE from_str(os_path_join(dst, t[3]))

\* the for loops of move over change_list_rows, from its k-th row on
RECURSIVE MoveLoop(_, _, _, _, _, _, _)
MoveLoop(change_list_rows, k, st, rs, n_fails, dst, keep_cats) ==
    IF k > Len(change_list_rows)
    THEN [store |-> st, rows |-> rs, n_fails |-> n_fails]
    ELSE LET row == change_list_rows[k]
             t == rs[row].tuple
             m == passutils_move(st, t, MoveDir(t, dst, keep_cats))
         IN  MoveLoop(change_list_rows, k + 1, m.store,
                      IF m.ok
                      THEN [rs EXCEPT ![row].tuple = MovedTuple(t, dst, keep_cats)]
                      ELSE rs,
                      IF m.ok THEN n_fails ELSE n_fails + 1,
                      dst, keep_cats)

\* the moves made although the conflict check was true (no return after the
\* notification)
move_rows_no_return(st, rs, change_list_rows, tuples, dst, keep_cats) ==
    LET l == MoveLoop(change_list_rows, 1, st, rs, 0, dst, keep_cats) IN
    [conflict |-> move_has_conflicts(st, tuples, dst, keep_cats),
     store |-> l.store, rows |-> l.rows,
     n_fails |-> l.n_fails, attempts |-> Len(change_list_rows)]

\* PassTable.move up to its first sort_sync_enumerate: the conflict check, and
\* the moves with the rows updated when there is no conflict
move_rows(st, rs, change_list_rows, tuples, dst, keep_cats) ==
    IF move_has_conflicts(st, tuples, dst, keep_cats)
    THEN [conflict |-> TRUE, store |-> st, rows |-> rs, n_fails |-> 0,
          attempts |-> 0]
    ELSE LET l == MoveLoop(change_list_rows, 1, st, rs, 0, dst, keep_cats) IN
         [conflict |-> FALSE, store |-> l.store, rows |-> l.rows,
          n_fails |-> l.n_fails, attempts |-> Len(change_list_rows)]

\* PassTable.move up to its first sort_sync_enumerate when another program
\* changes the store after the conflict check: the check reads st, the moves
\* start from st2
move_rows_raced(st, st2, rs, change_list_rows, tuples, dst, keep_cats) ==
    IF move_has_conflicts(st, tuples, dst, keep_cats)
    THEN [conflict |-> TRUE, store |-> st2, rows |-> rs, n_fails |-> 0,
          attempts |-> 0]
    ELSE LET l == MoveLoop(change_list_rows, 1, st2, rs, 0, dst, keep_cats) IN
         [conflict |-> FALSE, store |-> l.store, rows |-> l.rows,
          n_fails |-> l.n_fails, attempts |-> Len(change_list_rows)]

\* the for loop left at the first removal that fails
RECURSIVE DeleteLoopAbort(_, _, _, _, _)
DeleteLoopAbort(selected, k, st, rs, n_fails) ==
    IF k > Len(selected) \/ n_fails > 0
    THEN { [store |-> st, n_fails |-> n_fails, attempts |-> k - 1,
            failed |-> {}] }
    ELSE UNION { { [d EXCEPT !.failed = IF r.ok THEN @
                                        ELSE @ \cup { rs[selected[k]].tuple }]
                   : d \in DeleteLoopAbort(selected, k + 1, r.store, rs,
                            IF r.ok THEN n_fails ELSE n_fails + 1) }
                 : r \in rm(st, rs[selected[k]].tuple) }

\* the for loop of delete_selected, from the k-th selected row on: the
\* outcomes it can leave, one for each way the removals can go (attempts
\* counts the calls of passutils.rm, n_fails those that returned False,
\* failed holds the identifiers they were called on)
RECURSIVE DeleteLoop(_, _, _, _, _)
DeleteLoop(selected, k, st, rs, n_fails) ==
    IF k > Len(selected)
    THEN { [store |-> st, n_fails |-> n_fails, attempts |-> k - 1,
            failed |-> {}] }
    ELSE UNION { { [d EXCEPT !.failed = IF r.ok THEN @
                                        ELSE @ \cup { rs[selected[k]].tuple }]
                   : d \in DeleteLoop(selected, k + 1, r.store, rs,
                            IF r.ok THEN n_fails ELSE n_fails + 1) }
                 : r \in rm(st, rs[selected[k]].tuple) }


\* `pass insert` run without looking for the entry's file first
passcli_insert_unchecked(st, pass_tuple) ==
    { [ok |-> TRUE, store |-> st \cup { tuple_str(pass_tuple) }, wrote |-> TRUE,
       raised |-> FALSE],
      [ok |-> FALSE, store |-> st, wrote |-> TRUE, raised |-> FALSE],
      [ok |-> FALSE, store |-> st, wrote |-> FALSE, raised |-> TRUE] }

\* passutils.passcli_insert, the outcomes it can have: refused when the
\* entry's file exists; otherwise `pass insert` is run (wrote) and either
\* writes the entry named str(pass_tuple) and exits 0, or exits with another
\* code and writes nothing; Popen raises when there is no `pass` program.
passcli_insert(st, pass_tuple) ==
    IF fs_path(pass_tuple) \in st
    THEN { [ok |-> FALSE, store |-> st, wrote |-> FALSE, raised |-> FALSE] }
    ELSE { [ok |-> TRUE, store |-> st \cup { tuple_str(pass_tuple) },
            wrote |-> TRUE, raised |-> FALSE],
           [ok |-> FALSE, store |-> st, wrote |-> TRUE, raised |-> FALSE],
           [ok |-> FALSE, store |-> st, wrote |-> FALSE, raised |-> TRUE] }

\* passutils.passcli_copy, the outcomes it can have: `pass show -c<n>` exits
\* 0 only when the entry named str(pass_tuple) is in the store, and can exit
\* with another code whatever the store (no line n in the entry);
\* subprocess.run raises when there is no `pass` program.
passcli_copy(st, pass_tuple, n) ==
    (IF tuple_str(pass_tuple) \in st
     THEN { [ok |-> TRUE, raised |-> FALSE] } ELSE {})
    \cup { [ok |-> FALSE, raised |-> FALSE], [ok |-> FALSE, raised |-> TRUE] }

-----------------------------------------------------------------------------
(* The environment.                                                        *)

\* the profiles "a" and "b"
Profiles == { <<97>>, <<98>> }

\* the entries of the stores and tables a single call is applied to: "m",
\* "<profile>/m" and "a/c/m"
Universe ==
    { <<109>> }
    \cup { os_path_join(p, <<109>>) : p \in Profiles }
    \cup { os_path_join(os_path_join(<<97>>, <<99>>), <<109>>) }

\* the entries other programs create while the application runs, and those
\* PassTable.insert is called for: "m", "a/m" and "a/c/m" (moves make "c/m"
\* as well)
Entries == { p \in Universe : os_path_dirname(p) # <<98>> }

\* the prof_cat arguments of PassTable.insert, and its url
ProfCats == { os_path_dirname(p) : p \in Entries }

NewUrl == <<109>>

\* the destinations typed into the move dialog: "" and the profile "a"
Destinations == { Empty, <<97>> }

\* the store directory's name: ".password-store" by default (shortened to
\* ".p"), or one PASSWORD_STORE_DIR gives that starts with no dot ("p")
PassDirs == { <<DotChar, 112>>, <<112>> }

-----------------------------------------------------------------------------
(* The state machine.                                                      *)

\* the result a screen was dismissed with, before the worker awaiting it has
\* taken it: MoveDialog gives (move, keep_categories, dst), DeleteDialog a
\* bool, FindScreen the option's string (in arg)
NoResult == [set |-> FALSE, ok |-> FALSE, keep |-> FALSE, arg |-> <<>>]
Result(ok, keep, arg) == [set |-> TRUE, ok |-> ok, keep |-> keep, arg |-> arg]

\* the modal screen above the table (kind), with the row strings it was built
\* with (options): MoveDialog and DeleteDialog display those of the selected
\* rows and no handler reads them back; FindScreen keeps those of all rows,
\* which action_select_and_leave reads back.  worker is the operation
\* suspended in push_screen_wait, and result what its screen was dismissed
\* with: the event loop resumes the worker in a later turn.
NoDialog == [kind |-> "none", options |-> {}, worker |-> "none", result |-> NoResult]

\* the history record of a step that no property reads
HistNone ==
    [ op |-> "none",
      \* a traced sync: the rows (sorted) and the cursor it was given, the list
      \* get_categorized_passwords returned, and whether the step before was a
      \* sync as well
      srows |-> <<>>, scursor |-> 0, listing |-> <<>>, fresh |-> FALSE,
      \* move and delete_selected: the arguments, what the conflict check said,
      \* the calls of passutils.move or passutils.rm and how many failed, and
      \* whether selected_rows raised
      dst |-> Empty, keep |-> FALSE, conflict |-> FALSE,
      attempts |-> 0, n_fails |-> 0, raised |-> FALSE,
      \* the notification the step showed
      notice |-> "none",
      \* the calls the handler made that touch the store, the table or the
      \* screen, in the order it made them
      calls |-> <<>>,
      \* insert and select: the identifier they were given
      target |-> <<>>,
      \* the step closed a screen and left the worker awaiting it suspended
      suspended |-> FALSE,
      \* a conversion applied on its own: the path given to from_str, the
      \* PassTuple it returned, and str() of that PassTuple and of a row
      \* holding it
      arg |-> <<>>, ret |-> <<>>, fmt |-> <<>>, disp |-> <<>>,
      \* what from_str returned for the str() of the PassTuple
      back |-> <<>>,
      \* move and delete_selected: the row strings the dialog displayed, and
      \* the identifiers of the rows the handler went through
      shown |-> {}, acted |-> {},
      \* delete_selected: the identifiers whose passutils.rm returned False
      failed |-> {},
      \* a move raced by another program: the store its first move found
      before |-> {},
      \* rename: what it returned (with target and dst its arguments, and
      \* before the store it was called on)
      ok |-> FALSE,
      \* how many times the step resumed a worker waiting in push_screen_wait
      resumed |-> 0 ]

Did(op) == [HistNone EXCEPT !.op = op]

\* the worker that awaited the screen's result has been resumed with it
Resumed(h) == [h EXCEPT !.resumed = 1]

\* n calls of the same function
Calls(name, n) == [ k \in 1..n |-> name ]

\* the history of a sync given rs (not yet sorted), cur and new_passes
WithSync(h, rs, cur, new_passes) ==
    [h EXCEPT !.srows = sort(rs), !.scursor = cur,
              !.listing = new_passes,
              !.fresh = (hist.op = "sync")]

Stores == { st \in SUBSET Universe : Cardinality(st) <= MaxEntries }

Init ==
    /\ pass_dir \in PassDirs
    /\ store \in SUBSET Entries
    /\ rows = <<>>
    /\ cursor = 0
    /\ mounted = FALSE
    /\ crashed = FALSE
    /\ dialog = NoDialog
    /\ hist = HistNone

\* the terminal is handed to the editor: PassTable.action_edit_entry is inside
\* "with self.app.suspend()", waiting for subprocess.run to return
Editing == dialog.kind = "edit"

\* the event loop takes events whatever the handler in progress
RunningWhileEditing == mounted /\ ~crashed

\* the event loop takes events: the application is up and its thread is not
\* held by a handler
Running == mounted /\ ~crashed /\ ~Editing

\* the table has the keyboard: no modal screen is above it
TableFocused == Running /\ dialog.kind = "none"

\* no worker is suspended in push_screen_wait.  A handler that starts a
\* worker (move, delete, find) is begun only then: at most one worker at a
\* time is followed.
NoWorker == dialog.worker = "none"

\* the screen of the worker w has been dismissed and w not yet resumed
Pending(w) == dialog.worker = w /\ dialog.result.set

\* the worker ends
WorkerDone == [dialog EXCEPT !.worker = "none", !.result = NoResult,
                             !.options = {}]

\* another program adds an entry to the store
ExternalAdd(p) ==
    /\ p \notin store
    /\ Cardinality(store) < MaxEntries
    /\ store' = store \cup {p}
    /\ hist' = HistNone
    /\ UNCHANGED <<pass_dir, rows, cursor, mounted, crashed, dialog>>

\* another program removes an entry from the store
ExternalRemove(p) ==
    /\ p \in store
    /\ store' = store \ {p}
    /\ hist' = HistNone
    /\ UNCHANGED <<pass_dir, rows, cursor, mounted, crashed, dialog>>

\* PassTable.on_mount
Mount ==
    /\ ~mounted
    /\ \E new_passes \in get_categorized_passwords(store, pass_dir) :
          LET r == sort_sync_enumerate(rows, cursor, new_passes) IN
          /\ rows' = r.rows
          /\ cursor' = r.cursor
    /\ mounted' = TRUE
    /\ hist' = Did("mount")
    /\ UNCHANGED <<pass_dir, store, crashed, dialog>>

\* a tick of the interval timer set in on_mount: sort_sync_enumerate.  The
\* timer belongs to the table and ticks whatever screen is on top.
TimerStep(traced) ==
    /\ Running
    /\ \E new_passes \in get_categorized_passwords(store, pass_dir) :
          LET r == sort_sync_enumerate(rows, cursor, new_passes) IN
          /\ rows' = r.rows
          /\ cursor' = r.cursor
          /\ hist' = IF traced THEN WithSync(Did("sync"), rows, cursor, new_passes)
                     ELSE Did("tick")
    /\ UNCHANGED <<pass_dir, store, mounted, crashed, dialog>>

Timer == TimerStep(FALSE)

\* row.select() / row.deselect() on the row at the cursor
SetChecked(rs, cur, v) == [rs EXCEPT ![cur + 1].checkbox = v]

\* DataTable.action_cursor_up
cursor_up(rs, cur) == move_cursor(Len(rs), cur - 1)

\* the cursor moved down with no regard for the last row
cursor_down_unclamped(rs, cur) == cur + 1

\* DataTable.action_cursor_down
cursor_down(rs, cur) == move_cursor(Len(rs), cur + 1)

\* current_row.select() or .deselect(), the cursor key, and the same on the
\* row the cursor came to
RangeStep(rs, cur, new_cur, v) == SetChecked(SetChecked(rs, cur, v), new_cur, v)

\* what a handler of a key left: the rows and the cursor, or an exception
Returned(rs, cur) == [raised |-> FALSE, rows |-> rs, cursor |-> cur]
Raised(rs, cur) == [raised |-> TRUE, rows |-> rs, cursor |-> cur]

\* only the row the cursor comes to is set
range_action_new_row_only(rs, cur, new_cur, v) ==
    IF Len(rs) = 0 THEN Returned(rs, cur)
    ELSE Returned(SetChecked(rs, new_cur, v), new_cur)

\* the body of action_select_up, action_select_down, action_deselect_up and
\* action_deselect_down, new_cur being where the cursor key takes the cursor:
\* nothing on an empty table; current_row raises CellDoesNotExist when the
\* cursor is on no row
range_action(rs, cur, new_cur, v) ==
    IF Len(rs) = 0 THEN Returned(rs, cur)
    ELSE IF ~ValidCursor(rs, cur) \/ ~ValidCursor(rs, new_cur) THEN Raised(rs, cur)
    ELSE Returned(RangeStep(rs, cur, new_cur, v), new_cur)

\* PassTable.action_select_up
action_select_up(rs, cur) == range_action(rs, cur, cursor_up(rs, cur), TRUE)

\* PassTable.action_select_down
action_select_down(rs, cur) == range_action(rs, cur, cursor_down(rs, cur), TRUE)

\* PassTable.action_deselect_up
action_deselect_up(rs, cur) == range_action(rs, cur, cursor_up(rs, cur), FALSE)

\* PassTable.action_deselect_down
action_deselect_down(rs, cur) == range_action(rs, cur, cursor_down(rs, cur), FALSE)

\* PassTable.action_deselect_all
action_deselect_all(rs, cur) ==
    Returned([k \in 1..Len(rs) |-> [rs[k] EXCEPT !.checkbox = FALSE]], cur)

\* PassTable.action_select_all
action_select_all(rs, cur) ==
    Returned([k \in 1..Len(rs) |-> [rs[k] EXCEPT !.checkbox = TRUE]], cur)

\* every row toggled but the first
action_reverse_selection_from_second(rs, cur) ==
    Returned([k \in 1..Len(rs) |->
                 [rs[k] EXCEPT !.checkbox = IF k = 1 THEN @ ELSE ~@]], cur)

\* PassTable.action_reverse_selection
action_reverse_selection(rs, cur) ==
    Returned([k \in 1..Len(rs) |-> [rs[k] EXCEPT !.checkbox = ~rs[k].checkbox]], cur)

\* PassTable.action_select_entry
action_select_entry(rs, cur) ==
    IF Len(rs) = 0 THEN Returned(rs, cur)
    ELSE IF ~ValidCursor(rs, cur) THEN Raised(rs, cur)
    ELSE Returned([rs EXCEPT ![cur + 1].checkbox = ~rs[cur + 1].checkbox], cur)

\* the identifiers of the rows picked (a list of indices), and their strings
\* as MoveDialog and DeleteDialog take them ([str(row) for row in rows])
RowTuples(rs, picked) == { rs[picked[k]].tuple : k \in 1..Len(picked) }
RowStrings(rs, picked) == { row_str(t) : t \in RowTuples(rs, picked) }

\* an exception escapes the handler, or the worker that runs it: the
\* application exits
Crash(op) ==
    /\ crashed' = TRUE
    /\ dialog' = NoDialog
    /\ hist' = [Did(op) EXCEPT !.raised = TRUE]
    /\ UNCHANGED <<pass_dir, store, rows, cursor, mounted>>

\* a key the table handles at once: the handler op left r.  With traced, the
\* history keeps the rows and the cursor the handler was given.
KeyStep(op, r, traced) ==
    /\ TableFocused
    /\ IF r.raised THEN Crash(op)
       ELSE /\ rows' = r.rows
            /\ cursor' = r.cursor
            /\ hist' = IF traced
                       THEN [Did(op) EXCEPT !.srows = rows, !.scursor = cursor]
                       ELSE HistNone
            /\ UNCHANGED <<pass_dir, store, mounted, crashed, dialog>>

\* the up key (DataTable's own binding)
CursorUp == KeyStep("cursor_up", Returned(rows, cursor_up(rows, cursor)), FALSE)

\* the down key (DataTable's own binding)
CursorDown == KeyStep("cursor_down", Returned(rows, cursor_down(rows, cursor)), FALSE)

\* shift+up
SelectUp == KeyStep("select_up", action_select_up(rows, cursor), FALSE)

\* shift+down
SelectDown == KeyStep("select_down", action_select_down(rows, cursor), FALSE)

\* ctrl+up
DeselectUp == KeyStep("deselect_up", action_deselect_up(rows, cursor), FALSE)

\* ctrl+down
DeselectDown == KeyStep("deselect_down", action_deselect_down(rows, cursor), FALSE)

\* escape
DeselectAll == KeyStep("deselect_all", action_deselect_all(rows, cursor), FALSE)

\* a
SelectAll == KeyStep("select_all", action_select_all(rows, cursor), FALSE)

\* r
ReverseSelection ==
    KeyStep("reverse_selection", action_reverse_selection(rows, cursor), FALSE)

\* space
SelectEntry == KeyStep("select_entry", action_select_entry(rows, cursor), FALSE)

\* PassTable.action_move_entry up to its await: MoveDialog(self.selected_rows).
\* The strings the dialog displays are kept in the state when traced.
MoveOpenStep(traced) ==
    /\ TableFocused
    /\ NoWorker
    /\ LET sel == selected_rows(rows, cursor) IN
       IF sel.raised THEN Crash("move_open")
       ELSE /\ dialog' = [kind |-> "move",
                          options |-> IF traced THEN RowStrings(rows, sel.val)
                                      ELSE {},
                          worker |-> "move", result |-> NoResult]
            /\ hist' = HistNone
            /\ UNCHANGED <<pass_dir, store, rows, cursor, mounted, crashed>>

MoveOpen == MoveOpenStep(FALSE)

\* a screen's handler calls self.dismiss(result): the screen is popped and the
\* result left for the worker
Dismiss(kind, result) ==
    /\ Running
    /\ dialog.kind = kind
    /\ dialog' = [dialog EXCEPT !.kind = "none", !.result = result]
    /\ hist' = HistNone
    /\ UNCHANGED <<pass_dir, store, rows, cursor, mounted, crashed>>

\* MoveDialog.action_leave
MoveCancel == Dismiss("move", Result(FALSE, FALSE, <<>>))

\* MoveDialog.action_leave_and_move
MoveConfirm(dst, keep_cats) == Dismiss("move", Result(TRUE, keep_cats, dst))

\* action_move_entry resumed after its await: it returns when move is False
\* and calls PassTable.move otherwise.  The store does not change between the
\* two sort_sync_enumerate calls, which are given the same listing.
MoveResume ==
    /\ Running
    /\ Pending("move")
    /\ IF ~dialog.result.ok
       THEN /\ dialog' = WorkerDone
            /\ hist' = Resumed(HistNone)
            /\ UNCHANGED <<pass_dir, store, rows, cursor, mounted, crashed>>
       ELSE
       LET sel == selected_rows(rows, cursor)
           tup == selected_tuples(rows, cursor)
           dst == dialog.result.arg
           keep_cats == dialog.result.keep
       IN
       IF sel.raised THEN Crash("move")
       ELSE LET m == move_rows(store, rows, sel.val, tup.val, dst, keep_cats)
                h == [Resumed(Did("move")) EXCEPT
                         !.shown = dialog.options,
                         !.acted = IF m.conflict THEN {}
                                   ELSE RowTuples(rows, sel.val),
                         !.dst = dst, !.keep = keep_cats,
                         !.conflict = m.conflict, !.attempts = m.attempts,
                         !.n_fails = m.n_fails,
                         !.notice = IF m.conflict THEN "conflict"
                                    ELSE IF m.n_fails = 0 THEN "move_ok"
                                    ELSE "move_failed",
                         !.calls = IF m.conflict
                                   THEN <<"move_has_conflicts", "notify">>
                                   ELSE <<"move_has_conflicts">>
                                        \o Calls("move", m.attempts)
                                        \o <<"sort_sync_enumerate", "notify",
                                              "sort_sync_enumerate">>]
            IN
            /\ dialog' = WorkerDone
            /\ store' = m.store
            /\ hist' = h
            /\ IF m.conflict
               THEN UNCHANGED <<rows, cursor>>
               ELSE \E new_passes \in get_categorized_passwords(m.store, pass_dir) :
                       LET r1 == sort_sync_enumerate(m.rows, cursor, new_passes)
                           r2 == sort_sync_enumerate(r1.rows, r1.cursor, new_passes)
                       IN  /\ rows' = r2.rows
                           /\ cursor' = r2.cursor
            /\ UNCHANGED <<pass_dir, mounted, crashed>>

\* PassTable.action_delete_entry up to its await:
\* DeleteDialog(self.selected_rows).  The strings the dialog displays are kept
\* in the state when traced.
DeleteOpenStep(traced) ==
    /\ TableFocused
    /\ NoWorker
    /\ Len(rows) > 0
    /\ LET sel == selected_rows(rows, cursor) IN
       IF sel.raised THEN Crash("delete_open")
       ELSE /\ dialog' = [kind |-> "delete",
                          options |-> IF traced THEN RowStrings(rows, sel.val)
                                      ELSE {},
                          worker |-> "delete", result |-> NoResult]
            /\ hist' = HistNone
            /\ UNCHANGED <<pass_dir, store, rows, cursor, mounted, crashed>>

DeleteOpen == DeleteOpenStep(FALSE)

\* DeleteDialog.action_leave
DeleteCancel == Dismiss("delete", Result(FALSE, FALSE, <<>>))

\* DeleteDialog.action_delete
DeleteConfirm == Dismiss("delete", Result(TRUE, FALSE, <<>>))

\* action_delete_entry resumed after its await: PassTable.delete_selected
\* when the result is True
DeleteResume ==
    /\ Running
    /\ Pending("delete")
    /\ IF ~dialog.result.ok
       THEN /\ dialog' = WorkerDone
            /\ hist' = Resumed(HistNone)
            /\ UNCHANGED <<pass_dir, store, rows, cursor, mounted, crashed>>
       ELSE
       LET sel == selected_rows(rows, cursor) IN
       IF sel.raised THEN Crash("delete")
       ELSE \E d \in DeleteLoop(sel.val, 1, store, rows, 0) :
            /\ dialog' = WorkerDone
            /\ store' = d.store
            /\ hist' = [Resumed(Did("delete")) EXCEPT
                           !.shown = dialog.options,
                           !.acted = RowTuples(rows, sel.val),
                           !.scursor = cursor,
                           !.attempts = d.attempts, !.n_fails = d.n_fails,
                           !.failed = d.failed,
                           !.notice = IF d.n_fails > 0 THEN "rm_failed" ELSE "rm_ok",
                           !.calls = Calls("rm", d.attempts)
                                     \o <<"notify", "sort_sync_enumerate">>]
            /\ \E new_passes \in get_categorized_passwords(d.store, pass_dir) :
                  LET r == sort_sync_enumerate(rows, cursor, new_passes) IN
                  /\ rows' = r.rows
                  /\ cursor' = r.cursor
            /\ UNCHANGED <<pass_dir, mounted, crashed>>

\* PassTable.action_edit_entry up to the start of the editor: the handler is
\* not a coroutine, so the event loop's thread stays in it
\* (subprocess.run raises FileNotFoundError when there is no pass program)
EditStart ==
    /\ TableFocused
    /\ Len(rows) > 0
    /\ IF ~ValidCursor(rows, cursor) THEN Crash("edit_start")
       ELSE \/ /\ dialog' = [dialog EXCEPT !.kind = "edit"]
               /\ hist' = [Did("edit_start") EXCEPT
                              !.target = rows[cursor + 1].tuple,
                              !.calls = <<"suspend", "passcli_edit">>]
               /\ UNCHANGED <<pass_dir, store, rows, cursor, mounted, crashed>>
            \/ Crash("edit_raised")

\* the editor exits: subprocess.run returns, the with block ends and
\* action_edit_entry returns to the event loop
EditExit ==
    /\ mounted
    /\ ~crashed
    /\ Editing
    /\ dialog' = [dialog EXCEPT !.kind = "none"]
    /\ hist' = Did("edit")
    /\ UNCHANGED <<pass_dir, store, rows, cursor, mounted, crashed>>

\* PassTable.action_copy_password (n = 1) and action_copy_username (n = 2):
\* nothing on an empty table; otherwise passcli_copy on the row at the cursor,
\* clear_notifications and a notification.  The handler tests
\* "return_code != 0" on the bool passcli_copy returns (True when `pass`
\* exited 0), so it reports a failure when the copy succeeded and a success
\* when it failed.  With traced, the history keeps the entry, the calls and
\* the notification.
CopyStep(op, n, traced) ==
    /\ TableFocused
    /\ IF Len(rows) = 0
       THEN /\ hist' = HistNone
            /\ UNCHANGED <<pass_dir, store, rows, cursor, mounted, crashed, dialog>>
       ELSE IF ~ValidCursor(rows, cursor) THEN Crash(op)
       ELSE \E c \in passcli_copy(store, rows[cursor + 1].tuple, n) :
               IF c.raised THEN Crash("copy_raised")
               ELSE /\ hist' = IF traced
                               THEN [Did(op) EXCEPT
                                        !.target = rows[cursor + 1].tuple,
                                        !.notice = IF c.ok THEN "copy_failed"
                                                   ELSE "copy_ok",
                                        !.calls = <<"passcli_copy",
                                                    "clear_notifications",
                                                    "notify">>]
                               ELSE HistNone
                    /\ UNCHANGED <<pass_dir, store, rows, cursor, mounted,
                                   crashed, dialog>>

\* p
CopyPassword == CopyStep("copy_password", 1, TRUE)

\* u
CopyUsername == CopyStep("copy_username", 2, TRUE)

\* PassTable.action_new_entry: push_screen(NewEntryDialog(self)), whatever
\* worker is waiting to be resumed.  The handler returns to the event loop
\* with the dialog on top and nothing raised; the dialog's Mount event is
\* handled in a later turn (NewMount).
NewOpen ==
    /\ TableFocused
    /\ dialog' = [dialog EXCEPT !.kind = "new"]
    /\ hist' = HistNone
    /\ UNCHANGED <<pass_dir, store, rows, cursor, mounted, crashed>>

\* NewEntryDialog.on_mount, the first event the pushed dialog handles: it
\* ends in update_alphabet and so in action_regenerate_password (also the
\* handler of the TabActivated message the dialog's TabbedContent posts when
\* mounted).  With the symbols pane active and its length valid, as
\* composed, that handler calls passutils.get_rand_password, a name
\* passutils does not define: the AttributeError escapes the handler and the
\* application exits.  Between NewOpen and this step the event loop can run
\* the table's timer and resume a worker whose screen was dismissed; no key
\* of the dialog (action_leave, action_leave_and_save) is handled before
\* its Mount event, so none ever is.
NewMount ==
    /\ Running
    /\ dialog.kind = "new"
    /\ Crash("new_mount")

\* PassTable.action_find up to its await: FindScreen(self.all_rows)
FindOpen ==
    /\ TableFocused
    /\ NoWorker
    /\ dialog' = [kind |-> "find",
                  options |-> { row_str(rows[k].tuple) : k \in 1..Len(rows) },
                  worker |-> "find", result |-> NoResult]
    /\ hist' = HistNone
    /\ UNCHANGED <<pass_dir, store, rows, cursor, mounted, crashed>>

\* FindScreen.action_leave: the screen is popped and not dismissed, so the
\* worker of action_find that awaits its result is never resumed; it is not
\* followed further
FindCancel ==
    /\ Running
    /\ dialog.kind = "find"
    /\ dialog' = NoDialog
    /\ hist' = [Did("find_leave") EXCEPT !.suspended = TRUE]
    /\ UNCHANGED <<pass_dir, store, rows, cursor, mounted, crashed>>

\* FindScreen.action_select_and_leave on the highlighted option
FindSelect(option) ==
    /\ option \in dialog.options
    /\ Running
    /\ dialog.kind = "find"
    /\ dialog' = [dialog EXCEPT !.kind = "none", !.options = {},
                                !.result = Result(TRUE, FALSE, option)]
    /\ hist' = HistNone
    /\ UNCHANGED <<pass_dir, store, rows, cursor, mounted, crashed>>

\* action_find resumed after its await: PassTable.select(path)
FindResume ==
    /\ Running
    /\ Pending("find")
    /\ dialog' = WorkerDone
    /\ cursor' = select(rows, cursor, dialog.result.arg)
    /\ hist' = [Resumed(Did("find")) EXCEPT
                   !.target = from_str(dialog.result.arg),
                   !.calls = <<"select">>]
    /\ UNCHANGED <<pass_dir, store, rows, mounted, crashed>>

Next ==
    \/ \E p \in Entries : ExternalAdd(p)
    \/ \E p \in store : ExternalRemove(p)
    \/ Mount
    \/ Timer
    \/ CursorUp
    \/ CursorDown
    \/ SelectUp
    \/ SelectDown
    \/ DeselectUp
    \/ DeselectDown
    \/ DeselectAll
    \/ SelectAll
    \/ ReverseSelection
    \/ SelectEntry
    \/ MoveOpen
    \/ MoveCancel
    \/ \E dst \in Destinations, keep_cats \in BOOLEAN : MoveConfirm(dst, keep_cats)
    \/ MoveResume
    \/ DeleteOpen
    \/ DeleteCancel
    \/ DeleteConfirm
    \/ DeleteResume
    \/ EditStart
    \/ EditExit
    \/ CopyPassword
    \/ CopyUsername
    \/ NewOpen
    \/ NewMount
    \/ FindOpen
    \/ FindCancel
    \/ \E option \in dialog.options : FindSelect(option)
    \/ FindResume

Spec == Init /\ [][Next]_vars


-----------------------------------------------------------------------------
(* PassTable.insert.  Its one caller is NewEntryDialog.action_leave_and_save, *)
(* which no behaviour of the application reaches (NewMount).  The method is  *)
(* therefore applied from outside: called on the table of the running        *)
(* application, between two events, with the arguments the dialog's fields   *)
(* would give it.                                                            *)

\* PassTable.insert(prof_cat, url, username, password): the PassTuple from
\* the path prof_cat/url, passutils.passcli_insert, the notification of its
\* outcome, then update_table's sort_sync_enumerate
Insert(prof_cat, url) ==
    /\ TableFocused
    /\ LET pass_tuple == from_str(os_path_join(prof_cat, url)) IN
       \E ins \in passcli_insert(store, pass_tuple) :
          IF ins.raised THEN Crash("insert_raised")
          ELSE
          /\ Cardinality(ins.store) <= MaxEntries
          /\ store' = ins.store
          /\ hist' = [Did("insert") EXCEPT
                         !.target = pass_tuple,
                         !.notice = IF ins.ok THEN "insert_ok" ELSE "insert_failed",
                         !.calls = <<"passcli_insert">>
                                   \o (IF ins.wrote THEN <<"pass insert">> ELSE <<>>)
                                   \o <<"notify", "sort_sync_enumerate">>]
          /\ \E new_passes \in get_categorized_passwords(ins.store, pass_dir) :
                LET r == sort_sync_enumerate(rows, cursor, new_passes) IN
                /\ rows' = r.rows
                /\ cursor' = r.cursor
          /\ UNCHANGED <<pass_dir, mounted, crashed, dialog>>

NextInsert ==
    \/ Next
    \/ \E prof_cat \in ProfCats : Insert(prof_cat, NewUrl)

InsertSpec == Init /\ [][NextInsert]_vars

-----------------------------------------------------------------------------
(* The reconciliation alone: sync applied to every table and store.        *)

Range(seq) == { seq[k] : k \in 1..Len(seq) }

Ids(rs) == [ k \in 1..Len(rs) |-> rs[k].tuple ]

Flags(rs) == [ k \in 1..Len(rs) |-> rs[k].checkbox ]

StrictlyAscending(tuples) ==
    \A k \in 1..(Len(tuples) - 1) : TupleLess(tuples[k], tuples[k + 1])

\* the identifiers the table can show: those of the entries get_passwords lists
Listable(dir) == { from_str(p) : p \in { q \in Universe : listed(q, dir) } }

\* the table sync leaves for the identifiers S, of which those in F are checked
TableOf(S, F) ==
    LET ids == sorted(CHOOSE e \in Enumerations(S) : TRUE) IN
    [ k \in 1..Len(ids) |-> [checkbox |-> ids[k] \in F, tuple |-> ids[k], label |-> k] ]

\* the tables between two events: sorted, enumerated, of at most MaxEntries rows
Tables(dir) ==
    UNION { { TableOf(S, F) : F \in SUBSET S } :
            S \in { T \in SUBSET Listable(dir) : Cardinality(T) <= MaxEntries } }

\* any table, any cursor on it, any store
InitSync ==
    /\ pass_dir \in PassDirs
    /\ store \in Stores
    /\ rows \in Tables(pass_dir)
    /\ cursor \in { c \in 0..MaxEntries : c = 0 \/ c < Len(rows) }
    /\ mounted = TRUE
    /\ crashed = FALSE
    /\ dialog = NoDialog
    /\ hist = HistNone

\* a tick of the timer, with the history of its sync kept
Resync == TimerStep(TRUE)

NextSync == Resync

SyncSpec == InitSync /\ [][NextSync]_vars

\* the last step was a sync given a sorted table with the cursor on a row
SyncedOnRow ==
    /\ hist.op = "sync"
    /\ StrictlyAscending(Ids(hist.srows))
    /\ ValidCursor(hist.srows, hist.scursor)

\* the identifier the cursor was on when the sync began
OldCursorId == hist.srows[hist.scursor + 1].tuple

\* the entries the sync found new, and the rows it found gone
Appeared == Range(hist.listing) \ Range(Ids(hist.srows))
Vanished == Range(Ids(hist.srows)) \ Range(hist.listing)


-----------------------------------------------------------------------------
(* Properties of the reconciliation.                                       *)

\* C1: a sync of a sorted table without duplicates, the cursor on a row, when
\* the listing holds exactly the table's identifiers, leaves the same
\* identifiers in the same order, the same checkbox on every row and the
\* cursor on the same index.
SyncOfUnchangedStore ==
    (SyncedOnRow /\ hist.listing = Ids(hist.srows))
        => /\ Ids(rows) = Ids(hist.srows)
           /\ Flags(rows) = Flags(hist.srows)
           /\ cursor = hist.scursor

\* a sync of an unchanged store has run on a table of three rows, some checked
\* and some not, with the cursor below the first row
SyncOfUnchangedStoreSeen ==
    /\ SyncedOnRow
    /\ hist.listing = Ids(hist.srows)
    /\ Len(hist.srows) = 3
    /\ hist.scursor > 0
    /\ \E i, j \in 1..Len(hist.srows) :
          hist.srows[i].checkbox /\ ~hist.srows[j].checkbox

\* C2: a sync that follows a sync, with no change of the store and no key in
\* between, leaves exactly the rows (identifiers, checkboxes, labels) and the
\* cursor the first one left.
SyncIdempotent ==
    (hist.op = "sync" /\ hist.fresh) => (rows = hist.srows /\ cursor = hist.scursor)

\* a second sync in a row has run, on a table the first one had to change: the
\* table differs from the store it started with
SyncIdempotentSeen ==
    /\ hist.op = "sync"
    /\ hist.fresh
    /\ Len(rows) >= 2
    /\ cursor > 0
    /\ \E i \in 1..Len(rows) : rows[i].checkbox
    /\ \E i \in 1..Len(rows) : ~rows[i].checkbox

\* C3: across a sync of a sorted table, every identifier that is in the table
\* before and after keeps its checkbox, whatever was added or removed.
SelectionPersists ==
    (hist.op = "sync" /\ StrictlyAscending(Ids(hist.srows)))
        => \A i \in 1..Len(hist.srows) : \A j \in 1..Len(rows) :
              hist.srows[i].tuple = rows[j].tuple
                  => rows[j].checkbox = hist.srows[i].checkbox

\* a sync has dropped a row and added one between two rows that stay, one
\* checked and one not
SelectionPersistsSeen ==
    /\ hist.op = "sync"
    /\ Appeared # {}
    /\ Vanished # {}
    /\ \E i, j \in 1..Len(rows) :
          /\ rows[i].checkbox /\ ~rows[j].checkbox
          /\ rows[i].tuple \in Range(Ids(hist.srows))
          /\ rows[j].tuple \in Range(Ids(hist.srows))

\* C4: when the listing is the table's identifiers and exactly one more entry,
\* which sorts before the row at the cursor, the sync moves the cursor one
\* index down and it is on the same identifier.
CursorFollowsInsertion ==
    (/\ SyncedOnRow
     /\ Vanished = {}
     /\ Cardinality(Appeared) = 1
     /\ \A e \in Appeared : TupleLess(e, OldCursorId))
        => /\ cursor = hist.scursor + 1
           /\ ValidCursor(rows, cursor)
           /\ rows[cursor + 1].tuple = OldCursorId

\* such a sync has run with the cursor on the second of two rows
CursorFollowsInsertionSeen ==
    /\ SyncedOnRow
    /\ Vanished = {}
    /\ Cardinality(Appeared) = 1
    /\ \A e \in Appeared : TupleLess(e, OldCursorId)
    /\ hist.scursor = 1
    /\ cursor = 2

\* C5: when the listing is the table's identifiers but one, which sorts before
\* the row at the cursor, the sync moves the cursor one index up and it is on
\* the same identifier.
CursorFollowsRemoval ==
    (/\ SyncedOnRow
     /\ Appeared = {}
     /\ Cardinality(Vanished) = 1
     /\ \A e \in Vanished : TupleLess(e, OldCursorId))
        => /\ cursor = hist.scursor - 1
           /\ ValidCursor(rows, cursor)
           /\ rows[cursor + 1].tuple = OldCursorId

\* such a sync has run with the cursor on the last of three rows
CursorFollowsRemovalSeen ==
    /\ SyncedOnRow
    /\ Appeared = {}
    /\ Cardinality(Vanished) = 1
    /\ \A e \in Vanished : TupleLess(e, OldCursorId)
    /\ hist.scursor = 2
    /\ cursor = 1

\* C6: when the row at the cursor stays and every entry added or removed sorts
\* after it, the sync leaves the cursor on the same index and identifier.
CursorIgnoresLaterChanges ==
    (/\ SyncedOnRow
     /\ OldCursorId \in Range(hist.listing)
     /\ \A e \in Appeared \cup Vanished : TupleLess(OldCursorId, e))
        => /\ cursor = hist.scursor
           /\ rows[cursor + 1].tuple = OldCursorId

-----------------------------------------------------------------------------
(* Properties of the whole table.                                          *)

\* C7: once the table is mounted, and so after every timer resync, delete,
\* move and insert, the rows are strictly ascending in the order on
\* (profile, category, name).
RowsStrictlyAscending == mounted => StrictlyAscending(Ids(rows))

\* a move of two rows has gone through and has left a table of three rows
RowsStrictlyAscendingSeen ==
    /\ hist.op = "move"
    /\ ~hist.conflict
    /\ hist.attempts = 2
    /\ Len(rows) = 3

\* C8: while the application runs, selected_rows yields at least one row: the
\* checked rows in display order when a row is checked, the row at the cursor
\* alone when none is; selected_tuples yields the identifiers of these rows.
SelectedRowsNeverEmpty ==
    Running =>
        LET sel == selected_rows(rows, cursor)
            tup == selected_tuples(rows, cursor)
            checked == CheckedFrom(rows, 1)
        IN  /\ ~sel.raised
            /\ ~tup.raised
            /\ Len(sel.val) >= 1
            /\ (checked # <<>> => sel.val = checked)
            /\ (checked = <<>> => sel.val = <<cursor + 1>>)
            /\ tup.val = [ k \in 1..Len(sel.val) |-> rows[sel.val[k]].tuple ]

\* C9: a move whose conflict check over the selected identifiers is true
\* attempts no per-row move, leaves the store, the rows with their checkboxes
\* and the cursor as they were, and reports the conflict.
MoveAbortsOnConflict ==
    [][ ( /\ hist'.op = "move"
          /\ ~hist'.raised
          /\ move_has_conflicts(store, selected_tuples(rows, cursor).val,
                                hist'.dst, hist'.keep) )
        => /\ hist'.attempts = 0
           /\ store' = store
           /\ rows' = rows
           /\ cursor' = cursor
           /\ hist'.notice = "conflict" ]_vars

\* the store holds m and a/m, and a move to "a" without the categories has
\* stopped on the conflict
MoveAbortsOnConflictSeen ==
    /\ hist.op = "move"
    /\ hist.conflict
    /\ hist.notice = "conflict"
    /\ hist.dst = <<97>>
    /\ ~hist.keep
    /\ { <<109>>, <<97, SepChar, 109>> } \subseteq store
    /\ Len(rows) >= 2

\* C10: the conflict check of a move is true iff, for some selected
\* identifier, the path the per-row move would write (destination, category
\* and name when the categories are kept; destination and name otherwise)
\* is already in the store.
ConflictIffDestinationTaken ==
    [][ (hist'.op = "move" /\ ~hist'.raised)
        => LET tuples == selected_tuples(rows, cursor).val IN
           ( hist'.conflict
             <=> \E k \in 1..Len(tuples) :
                    os_path_join(MoveDir(tuples[k], hist'.dst, hist'.keep),
                                 tuples[k][3]) \in store ) ]_vars

-----------------------------------------------------------------------------
(* Properties of delete, move, insert and find.                            *)

\* the identifiers delete_selected and move act on in the current state
Targets == selected_tuples(rows, cursor).val

\* the targets whose file is in the store
TargetsInStore == { k \in 1..Len(Targets) : fs_path(Targets[k]) \in store }

\* the files of the targets whose removal, in the step taken, returned True
RemovedFiles == { fs_path(t) : t \in Range(Targets) \ hist'.failed }

\* C11: a confirmed delete calls the removal once for each selected row,
\* whether or not earlier removals failed; the failure count is the number of
\* removals that failed, among them every target whose file is not in the
\* store; the store loses the files of the targets whose removal succeeded
\* and no other; success is reported iff the count is zero.
DeleteCountsEveryTarget ==
    [][ (hist'.op = "delete" /\ ~hist'.raised)
        => /\ hist'.attempts = Len(Targets)
           /\ hist'.calls = Calls("rm", Len(Targets))
                             \o <<"notify", "sort_sync_enumerate">>
           /\ hist'.failed \subseteq Range(Targets)
           /\ \A k \in 1..Len(Targets) :
                 k \notin TargetsInStore => Targets[k] \in hist'.failed
           /\ hist'.n_fails = Cardinality(hist'.failed)
           /\ store' = store \ RemovedFiles
           /\ (hist'.notice = "rm_ok" <=> hist'.n_fails = 0)
           /\ (hist'.notice = "rm_failed" <=> hist'.n_fails > 0) ]_vars

\* a delete of three rows has run: the first removal failed with the file
\* left in place, and the two after it were made and succeeded
DeleteCountsEveryTargetSeen ==
    /\ hist.op = "delete"
    /\ hist.attempts = 3
    /\ hist.n_fails = 1
    /\ hist.notice = "rm_failed"
    /\ Len(rows) = 1
    /\ rows[1].tuple \in hist.failed
    /\ \A t \in hist.acted \ hist.failed : TupleLess(rows[1].tuple, t)

\* C12 as stated: after a delete every target whose removal failed is still
\* a row, no target whose removal succeeded is, and every row that was not a
\* target and whose entry is in the store persists with its checkbox.
DeleteKeepsFailedTargets ==
    [][ (hist'.op = "delete" /\ ~hist'.raised)
        => /\ \A k \in 1..Len(Targets) :
                 Targets[k] \in Range(Ids(rows')) <=> Targets[k] \in hist'.failed
           /\ \A i \in 1..Len(rows) :
                 (rows[i].tuple \notin Range(Targets)
                     /\ fs_path(rows[i].tuple) \in store')
                 => \E j \in 1..Len(rows') :
                       /\ rows'[j].tuple = rows[i].tuple
                       /\ rows'[j].checkbox = rows[i].checkbox ]_vars

\* C12 amended: after a delete the store is the previous store without the
\* files of the targets whose removal succeeded, the rows are the listing of
\* that store, a previous row whose entry is still listed keeps its checkbox,
\* and a target is still a row iff its entry is still in the store: a target
\* whose removal failed with its file in place is a row, one whose removal
\* succeeded or whose file was already gone is not.
DeleteLeavesListedRows ==
    [][ (hist'.op = "delete" /\ ~hist'.raised)
        => /\ store' = store \ RemovedFiles
           /\ Ids(rows') \in get_categorized_passwords(store', pass_dir)
           /\ \A i \in 1..Len(rows) : \A j \in 1..Len(rows') :
                 rows[i].tuple = rows'[j].tuple
                     => rows'[j].checkbox = rows[i].checkbox
           /\ \A k \in 1..Len(Targets) :
                 /\ Targets[k] \in Range(Ids(rows'))
                       <=> fs_path(Targets[k]) \in store'
                 /\ Targets[k] \in Range(Ids(rows'))
                       <=> (Targets[k] \in hist'.failed /\ k \in TargetsInStore)
       ]_vars

\* a delete of two of three rows has run, one removal failing with the file
\* left in place: two rows are left, the failed target one of them, and one
\* failure is reported
DeleteLeavesListedRowsSeen ==
    /\ hist.op = "delete"
    /\ hist.attempts = 2
    /\ hist.n_fails = 1
    /\ hist.notice = "rm_failed"
    /\ Len(rows) = 2
    /\ \E t \in hist.failed : t \in Range(Ids(rows))

\* C13: a confirmed delete calls prune and, after it, the resync.
DeletePrunesThenSyncs ==
    (hist.op = "delete" /\ ~hist.raised)
        => \E i, j \in 1..Len(hist.calls) :
              /\ i < j
              /\ hist.calls[i] = "prune"
              /\ hist.calls[j] = "sort_sync_enumerate"

\* the rows as PassTable.move leaves them for its resync, when the move is
\* confirmed in the current state
MovedRows(dst, keep_cats) ==
    move_rows(store, rows, selected_rows(rows, cursor).val, Targets,
              dst, keep_cats).rows

\* C14: in a move without conflict every target is attempted; a row whose
\* move succeeded is given the identifier of the entry's new location
\* (destination, category when kept, name), where the entry then is, and
\* after the resync the row of that identifier has the checkbox the row had;
\* a row whose move failed keeps its identifier and checkbox; success is
\* reported iff no move failed.
MoveCarriesSelection ==
    [][ (hist'.op = "move" /\ ~hist'.raised /\ ~hist'.conflict)
        => LET sel == selected_rows(rows, cursor).val
               moved == MovedRows(hist'.dst, hist'.keep)
           IN  /\ hist'.attempts = Len(sel)
               /\ (hist'.notice = "move_ok" <=> hist'.n_fails = 0)
               /\ hist'.n_fails =
                     Cardinality({ k \in 1..Len(sel) : moved[sel[k]] = rows[sel[k]] })
               /\ \A k \in 1..Len(sel) :
                     LET old == rows[sel[k]]
                         new == moved[sel[k]]
                     IN  \/ new = old
                         \/ /\ new.tuple = MovedTuple(old.tuple, hist'.dst, hist'.keep)
                            /\ fs_path(new.tuple) \in store'
                            /\ fs_path(old.tuple) \notin store'
                            /\ \E j \in 1..Len(rows') :
                                  /\ rows'[j].tuple = new.tuple
                                  /\ rows'[j].checkbox = old.checkbox ]_vars

\* C15: an insert whose identifier is already an entry of the store fails
\* before `pass insert` is run: the store is unchanged and the failure is
\* notified.
InsertOccupiedFails ==
    [][ (hist'.op = "insert" /\ fs_path(hist'.target) \in store)
        => /\ store' = store
           /\ "pass insert" \notin Range(hist'.calls)
           /\ hist'.notice = "insert_failed" ]_vars

\* an insert of a/c/m has failed in a store that holds a/c/m and two more
InsertOccupiedFailsSeen ==
    /\ hist.op = "insert"
    /\ hist.notice = "insert_failed"
    /\ hist.target = << <<97>>, <<99>>, <<109>> >>
    /\ fs_path(hist.target) \in store
    /\ Cardinality(store) = 3

\* C16: after an insert that succeeded the resync has run (the rows are the
\* listing of the store) and, the new entry being a row, the cursor is on it.
InsertMovesCursorToEntry ==
    (hist.op = "insert" /\ hist.notice = "insert_ok")
        => /\ Ids(rows) \in get_categorized_passwords(store, pass_dir)
           /\ hist.target \in Range(Ids(rows))
                 => /\ ValidCursor(rows, cursor)
                    /\ rows[cursor + 1].tuple = hist.target

\* C17: select(path) leaves the rows, their order and checkboxes and the
\* store as they are; when a row has the identifier from_str(path) the cursor
\* is on that row afterwards, and when none has, the cursor is where it was.
FindSelectsMatchingRow ==
    [][ hist'.op = "find"
        => /\ rows' = rows
           /\ store' = store
           /\ IF hist'.target \in Range(Ids(rows))
              THEN /\ ValidCursor(rows, cursor')
                   /\ rows[cursor' + 1].tuple = hist'.target
              ELSE cursor' = cursor ]_vars

\* select has put the cursor on the last of three rows, one of them checked
FindSelectsMatchingRowSeen ==
    /\ hist.op = "find"
    /\ Len(rows) = 3
    /\ cursor = 2
    /\ rows[3].tuple = hist.target
    /\ \E k \in 1..Len(rows) : rows[k].checkbox

\* C18: a step that closes the delete, move or find dialog without
\* confirming (the new entry dialog is never closed by a key: NewMount), and
\* the step that resumes the worker with such a result, make
\* no call on the store and leave the store, the rows and the cursor as they
\* are; the closing step leaves no worker waiting for a result that never
\* comes.
CancelIsNoOp ==
    [][ ( /\ ~hist'.raised
          /\ \/ /\ dialog.kind \in {"move", "delete", "find"}
                /\ dialog'.kind = "none"
                /\ ~dialog'.result.ok
             \/ /\ dialog.result.set
                /\ ~dialog.result.ok
                /\ ~dialog'.result.set )
        => /\ store' = store
           /\ rows' = rows
           /\ cursor' = cursor
           /\ hist'.calls = <<>>
           /\ ~hist'.suspended ]_vars

\* C19: opening the dialog of a move or delete changes neither the rows nor
\* the store; while the dialog stays open no call of the operation is made
\* and the rows change only by a resync to the store's listing; once the
\* dialog is confirmed the next event the application handles is the
\* continuation, which makes all its calls in one step, its resync last.
DialogDoesNotRace ==
    [][ /\ (dialog.kind = "none" /\ dialog'.kind \in {"move", "delete"})
           => (store' = store /\ rows' = rows /\ cursor' = cursor)
        /\ (dialog.kind \in {"move", "delete"} /\ dialog' = dialog)
           => /\ hist'.op \in {"none", "tick"}
              /\ hist'.calls = <<>>
              /\ <<rows', cursor'>> # <<rows, cursor>>
                    => /\ store' = store
                       /\ \E new_passes \in get_categorized_passwords(store, pass_dir) :
                             LET r == sort_sync_enumerate(rows, cursor, new_passes)
                             IN  rows' = r.rows /\ cursor' = r.cursor
        /\ ((Pending("move") \/ Pending("delete")) /\ dialog.result.ok)
           => \/ hist'.resumed = 1
              \/ (hist'.raised /\ hist'.op = dialog.worker)
              \/ /\ hist' = HistNone
                 /\ UNCHANGED <<pass_dir, rows, cursor, mounted, crashed, dialog>>
        /\ (hist'.op \in {"move", "delete"} /\ ~hist'.raised)
           => /\ Pending(hist'.op)
              /\ dialog'.worker = "none"
              /\ hist'.conflict
                 \/ /\ hist'.calls[Len(hist'.calls)] = "sort_sync_enumerate"
                    /\ Ids(rows') \in get_categorized_passwords(store', pass_dir)
      ]_vars

-----------------------------------------------------------------------------
(* Properties of the table as a whole.                                     *)

\* C23: whenever the table has rows, the cursor is on one of them (its index
\* lies in 0..len-1); a sync that drops the row at the cursor, rows after it,
\* or all rows but one leaves the cursor clamped into that range.
CursorInRange ==
    Len(rows) > 0 => ValidCursor(rows, cursor)

\* a delete begun with the cursor on the third row has left one row, with the
\* cursor on it
CursorInRangeSeen ==
    /\ hist.op = "delete"
    /\ hist.scursor = 2
    /\ hist.n_fails = 0
    /\ Len(rows) = 1
    /\ cursor = 0

-----------------------------------------------------------------------------
(* The selection keys alone: pressed on every table, with the history of   *)
(* what the handler was given.                                             *)

\* any table, any cursor on it
InitKeys ==
    /\ InitSync
    /\ store = {}

ShiftUp == KeyStep("select_up", action_select_up(rows, cursor), TRUE)
ShiftDown == KeyStep("select_down", action_select_down(rows, cursor), TRUE)
CtrlUp == KeyStep("deselect_up", action_deselect_up(rows, cursor), TRUE)
CtrlDown == KeyStep("deselect_down", action_deselect_down(rows, cursor), TRUE)
Escape == KeyStep("deselect_all", action_deselect_all(rows, cursor), TRUE)
KeyA == KeyStep("select_all", action_select_all(rows, cursor), TRUE)
KeyR == KeyStep("reverse_selection", action_reverse_selection(rows, cursor), TRUE)
Space == KeyStep("select_entry", action_select_entry(rows, cursor), TRUE)

NextKeys ==
    \/ ShiftUp
    \/ ShiftDown
    \/ CtrlUp
    \/ CtrlDown
    \/ Escape
    \/ KeyA
    \/ KeyR
    \/ Space

KeySpec == InitKeys /\ [][NextKeys]_vars

\* the identifiers, their order and the ordinals are those the handler found
SameEntries ==
    /\ Ids(rows) = Ids(hist.srows)
    /\ \A k \in 1..Len(rows) : rows[k].label = hist.srows[k].label

\* where one step from c in direction d ends on a table of n rows
OneStep(c, d, n) ==
    IF c + d < 0 THEN 0 ELSE IF c + d > n - 1 THEN n - 1 ELSE c + d

\* the range key with direction d and flag v did what C26 says
RangeEffect(d, v) ==
    Len(hist.srows) > 0
        => LET c == hist.scursor
               nc == OneStep(c, d, Len(hist.srows))
           IN  /\ cursor = nc
               /\ SameEntries
               /\ \A k \in 1..Len(rows) :
                     rows[k].checkbox = IF k - 1 \in {c, nc} THEN v
                                        ELSE hist.srows[k].checkbox

\* C26: select/deselect range up/down on a non-empty table with the cursor on
\* row c sets the flag of row c, moves the cursor one step in the direction,
\* clamped and without wraparound, sets the flag of the row it came to, and
\* changes no other flag, no identifier and no order; at a boundary the
\* cursor stays and only its row is set.
RangeKeysSetTwoRows ==
    /\ hist.op = "select_up" => RangeEffect(-1, TRUE)
    /\ hist.op = "select_down" => RangeEffect(1, TRUE)
    /\ hist.op = "deselect_up" => RangeEffect(-1, FALSE)
    /\ hist.op = "deselect_down" => RangeEffect(1, FALSE)

\* shift+down in the middle of three rows has checked the second and third,
\* the first staying unchecked
RangeKeysSetTwoRowsSeen ==
    /\ hist.op = "select_down"
    /\ Len(rows) = 3
    /\ hist.scursor = 1
    /\ cursor = 2
    /\ Flags(hist.srows) = <<FALSE, FALSE, FALSE>>
    /\ Flags(rows) = <<FALSE, TRUE, TRUE>>

\* C27: select all checks every row, deselect all unchecks every row, reverse
\* selection flips every row (twice in a row gives the first flags back) and
\* toggle flips the row at the cursor only; none moves the cursor or changes
\* the identifiers or their order.
TableKeysSetFlags ==
    /\ [](hist.op \in {"select_all", "deselect_all", "reverse_selection",
                       "select_entry"}
            => /\ cursor = hist.scursor
               /\ SameEntries
               /\ \A k \in 1..Len(rows) :
                     rows[k].checkbox =
                        CASE hist.op = "select_all" -> TRUE
                          [] hist.op = "deselect_all" -> FALSE
                          [] hist.op = "reverse_selection" -> ~hist.srows[k].checkbox
                          [] OTHER -> IF k - 1 = cursor
                                      THEN ~hist.srows[k].checkbox
                                      ELSE hist.srows[k].checkbox)
    /\ [][(hist.op = "reverse_selection" /\ hist'.op = "reverse_selection")
            => Flags(rows') = Flags(hist.srows)]_vars

\* reverse selection has flipped a checked and an unchecked row
TableKeysSetFlagsSeen ==
    /\ hist.op = "reverse_selection"
    /\ Flags(hist.srows) = <<TRUE, FALSE>>
    /\ Flags(rows) = <<FALSE, TRUE>>

-----------------------------------------------------------------------------
(* The table left to its timer: other programs change the store, the user  *)
(* at most moves the cursor and toggles a row.  The widget is mounted when  *)
(* the application starts and set_interval(5, ...) fires for as long as it  *)
(* runs, whatever else happens: at every moment a tick of the timer is the  *)
(* last step taken or is still to come.                                    *)

NextLive ==
    \/ \E p \in Universe : ExternalAdd(p)
    \/ \E p \in store : ExternalRemove(p)
    \/ Mount
    \/ Resync
    \/ CursorDown
    \/ SelectEntry

\* the timer keeps ticking
TimerRecurs == []<>(hist.op = "sync")

LiveSpec ==
    /\ Init
    /\ [][NextLive]_vars
    /\ TimerRecurs

\* the rows' identifiers are the listing of the store
RowsAreListing == Ids(rows) \in get_categorized_passwords(store, pass_dir)

\* C24: if from some point on the store no longer changes, then from some
\* point on the rows' identifiers are the listing of the store, by the ticks
\* of the timer alone.
TimerAbsorbsChanges ==
    <>[][store' = store]_vars => <>[]RowsAreListing

\* a tick of the timer has brought a table that differed from the listing
\* to it
TimerAbsorbsChangesSeen ==
    /\ hist.op = "sync"
    /\ Ids(hist.srows) # hist.listing
    /\ hist.listing # <<>>
    /\ Ids(rows) = hist.listing
    /\ RowsAreListing

\* a selection key is handled
SelectionKey ==
    \/ SelectUp \/ SelectDown \/ DeselectUp \/ DeselectDown
    \/ DeselectAll \/ SelectAll \/ ReverseSelection \/ SelectEntry

\* C28: no selection key and no sync (at mount or at a tick of the timer)
\* ever raises, whatever the state, an empty table and an empty store
\* included; the table they leave is sorted with the cursor on a row when
\* there is one; a selection key on an empty table changes nothing.
SelectionAndSyncTotal ==
    /\ [][(SelectionKey \/ Mount \/ Timer) => (~crashed' /\ ~hist'.raised)]_vars
    /\ [](StrictlyAscending(Ids(rows)) /\ (Len(rows) > 0 => ValidCursor(rows, cursor)))
    /\ [][(rows = <<>> /\ SelectionKey)
            => (~crashed' /\ rows' = rows /\ cursor' = cursor)]_vars

\* the table is mounted on an empty store: sync has run on no row and no
\* entry, and the keys are handled on the empty table
SelectionAndSyncTotalSeen ==
    /\ Running
    /\ dialog.kind = "none"
    /\ store = {}
    /\ rows = <<>>
    /\ ENABLED SelectUp
    /\ ENABLED SelectEntry

\* C29: every row's label is its position in the table, counted from 1,
\* after the sync at mount, at every tick of the timer and at the end of
\* delete, move and insert: no sync goes without update_enumeration.
LabelsArePositions ==
    \A k \in 1..Len(rows) : rows[k].label = k

\* an insert has put its entry before two rows, which were renumbered
LabelsArePositionsSeen ==
    /\ hist.op = "insert"
    /\ hist.notice = "insert_ok"
    /\ Len(rows) = 3
    /\ rows[1].tuple = hist.target
    /\ rows[3].label = 3

\* the places in the last step's calls where name was called
CallsOf(name) == { k \in 1..Len(hist.calls) : hist.calls[k] = name }

\* C25: in a delete or a move that went through, the notification of the
\* outcome comes after every call of rm or move and after a call of
\* sort_sync_enumerate.
NotifiesAfterResync ==
    (hist.op \in {"delete", "move"} /\ ~hist.conflict)
        => \A n \in CallsOf("notify") :
              /\ \A k \in CallsOf("rm") \cup CallsOf("move") : k < n
              /\ \E k \in CallsOf("sort_sync_enumerate") : k < n

\* C30: a row is checked after a sync only if a row of the same identifier
\* was there before the sync and was checked; the rows of entries the sync
\* finds new are unchecked, one that was a row before an earlier sync
\* dropped it included.
SyncCreatesNoSelection ==
    hist.op = "sync"
        => \A k \in 1..Len(rows) :
              rows[k].checkbox
                 => \E j \in 1..Len(hist.srows) :
                       /\ hist.srows[j].tuple = rows[k].tuple
                       /\ hist.srows[j].checkbox

\* a sync has kept a checked row and added an unchecked row for a new entry
SyncCreatesNoSelectionSeen ==
    /\ hist.op = "sync"
    /\ \E k \in 1..Len(rows) :
          rows[k].tuple \in Appeared /\ ~rows[k].checkbox
    /\ \E k \in 1..Len(rows) :
          rows[k].tuple \notin Appeared /\ rows[k].checkbox

-----------------------------------------------------------------------------
(* The listing alone: get_categorized_passwords applied to every store.    *)

\* entries with and without hidden components: "m", "a/m", ".m", "a/.m",
\* ".h/m" and ".h/c/m"
ListUniverse ==
    { <<109>>, <<97, SepChar, 109>>, <<DotChar, 109>>,
      <<97, SepChar, DotChar, 109>>,
      <<DotChar, 104, SepChar, 109>>,
      <<DotChar, 104, SepChar, 99, SepChar, 109>> }

InitList ==
    /\ pass_dir \in PassDirs
    /\ store \in SUBSET ListUniverse
    /\ rows = <<>>
    /\ cursor = 0
    /\ mounted = FALSE
    /\ crashed = FALSE
    /\ dialog = NoDialog
    /\ hist = HistNone

\* a call of get_categorized_passwords
ListStep ==
    /\ hist.op = "none"
    /\ \E new_passes \in get_categorized_passwords(store, pass_dir) :
          hist' = [Did("list") EXCEPT !.listing = new_passes]
    /\ UNCHANGED <<pass_dir, store, rows, cursor, mounted, crashed, dialog>>

NextList == ListStep

ListSpec == InitList /\ [][NextList]_vars

\* a component of the relative path p starts with "."
HiddenComponent(p) ==
    \E k \in 1..Len(split(p)) :
        split(p)[k] # Empty /\ split(p)[k][1] = DotChar

\* C20: the listing holds exactly the entries of the store no component of
\* whose path below the store directory is hidden.
ListingExcludesHidden ==
    hist.op = "list"
        => Range(hist.listing) =
              { from_str(p) : p \in { q \in store : ~HiddenComponent(q) } }

-----------------------------------------------------------------------------
(* The conversions alone: from_str and the two __str__ applied to every    *)
(* path.                                                                   *)

\* the characters of the paths: "a", "b" and "/"
PathChars == { 97, 98, SepChar }

\* "a/b/c/d" and "x"
ExamplePaths == { <<97, SepChar, 98, SepChar, 99, SepChar, 100>>, <<120>> }

\* the strings from_str is given: paths listed from the store, and what the
\* callers of PassTable.insert pass it (the fields of the new entry dialog
\* come to it unvalidated against empty segments)
Paths == UNION { [1..n -> PathChars] : n \in 0..MaxPathLen } \cup ExamplePaths

InitConv ==
    /\ pass_dir \in { <<112>> }
    /\ store = {}
    /\ rows = <<>>
    /\ cursor = 0
    /\ mounted = FALSE
    /\ crashed = FALSE
    /\ dialog = NoDialog
    /\ \E path \in Paths : hist = [HistNone EXCEPT !.arg = path]

\* PassTuple.from_str(path)
ParseStep ==
    /\ hist.op = "none"
    /\ hist' = [Did("from_str") EXCEPT !.arg = hist.arg,
                                       !.ret = from_str(hist.arg)]
    /\ UNCHANGED <<pass_dir, store, rows, cursor, mounted, crashed, dialog>>

\* str(pass_tuple), and str(row) of a PassRow whose pass_tuple it is
FormatStep ==
    /\ hist.op = "from_str"
    /\ hist' = [hist EXCEPT !.op = "str",
                            !.fmt = tuple_str(hist.ret),
                            !.disp = row_str(hist.ret)]
    /\ UNCHANGED <<pass_dir, store, rows, cursor, mounted, crashed, dialog>>

\* PassTuple.from_str(str(pass_tuple))
ReparseStep ==
    /\ hist.op = "str"
    /\ hist' = [hist EXCEPT !.op = "from_str(str)",
                            !.back = from_str(hist.fmt)]
    /\ UNCHANGED <<pass_dir, store, rows, cursor, mounted, crashed, dialog>>

NextConv ==
    \/ ParseStep
    \/ FormatStep
    \/ ReparseStep

ConvSpec == InitConv /\ [][NextConv]_vars

\* the segments of the path from_str was given, and those between the first
\* and the last
Segments == split(hist.arg)
MiddleSegments == SubSeq(Segments, 2, Len(Segments) - 1)

\* name is the last segment, profile the first of two or more
ParsedEnds ==
    /\ hist.ret[3] = Segments[Len(Segments)]
    /\ hist.ret[1] = IF Len(Segments) >= 2 THEN Segments[1] ELSE Empty

\* the segments joined with a separator after every non-empty segment but
\* the last
RECURSIVE JoinAfterNonEmpty(_)
JoinAfterNonEmpty(segs) ==
    IF segs = <<>> THEN Empty
    ELSE IF Len(segs) = 1 THEN segs[1]
    ELSE segs[1] \o (IF segs[1] # Empty THEN <<SepChar>> ELSE Empty)
                 \o JoinAfterNonEmpty(Tail(segs))

\* C21 as stated: name is the last segment, profile the first segment of two
\* or more (else empty), category the middle segments joined by the separator
\* (empty when there are fewer than three segments); "a/b/c/d" gives
\* ("a", "b/c", "d") and "x" gives ("", "", "x").
ParseJoinsMiddleBySeparator ==
    hist.op = "from_str"
        => /\ ParsedEnds
           /\ hist.ret[2] = SlashJoin(MiddleSegments)

\* C21 amended: name is the last segment, profile the first segment of two or
\* more (else empty), category the middle segments joined with one separator
\* after every non-empty middle segment but the last; "a/b/c/d" gives
\* ("a", "b/c", "d") and "x" gives ("", "", "x").
ParseSplitsPath ==
    hist.op = "from_str"
        => /\ ParsedEnds
           /\ hist.ret[2] = JoinAfterNonEmpty(MiddleSegments)
           /\ (hist.arg = <<97, SepChar, 98, SepChar, 99, SepChar, 100>>
                 => hist.ret = << <<97>>, <<98, SepChar, 99>>, <<100>> >>)
           /\ (hist.arg = <<120>> => hist.ret = <<Empty, Empty, <<120>> >>)

\* from_str has split a path of two middle segments, the first of them empty
ParseSplitsPathSeen ==
    /\ hist.op = "from_str"
    /\ Len(MiddleSegments) = 2
    /\ MiddleSegments[1] = Empty
    /\ hist.ret[2] = <<98>>

\* a string with two separators in a row, and one that begins with one
DoubledSeparator(str) ==
    \E k \in 1..(Len(str) - 1) : str[k] = SepChar /\ str[k + 1] = SepChar
LeadingSeparator(str) == str # Empty /\ str[1] = SepChar

\* the non-empty fields of a PassTuple
NonEmptyFields(t) ==
    SelectSeq(t, LAMBDA field : field # Empty)

\* both renderings are the non-empty fields joined by single separators
RenderedAlike ==
    /\ hist.fmt = hist.disp
    /\ hist.fmt = SlashJoin(NonEmptyFields(hist.ret))
    /\ ~DoubledSeparator(hist.fmt) /\ ~LeadingSeparator(hist.fmt)
    /\ ~DoubledSeparator(hist.disp) /\ ~LeadingSeparator(hist.disp)

\* C22 as stated: for every identifier with a non-empty name, str() of the
\* PassTuple and str() of the row are both the non-empty fields joined by
\* single separators, with no doubled and no leading separator, and are equal.
RenderingsAgree ==
    (hist.op = "str" /\ hist.ret[3] # Empty) => RenderedAlike

\* C22 amended: the same for every identifier from_str returns that has a
\* non-empty name and a category that does not end with a separator;
\* ("a", "", "b") is rendered "a/b" both ways.
RenderingsAgreeOnEntries ==
    ( /\ hist.op = "str"
      /\ hist.ret[3] # Empty
      /\ (hist.ret[2] = Empty \/ hist.ret[2][Len(hist.ret[2])] # SepChar) )
        => RenderedAlike

\* ("a", "", "b") has been rendered "a/b"
RenderingsAgreeOnEntriesSeen ==
    /\ hist.op = "str"
    /\ hist.ret = << <<97>>, Empty, <<98>> >>
    /\ hist.disp = <<97, SepChar, 98>>
    /\ hist.fmt = <<97, SepChar, 98>>

-----------------------------------------------------------------------------
(* Properties of the operations under changes of the store.                *)

\* the last step ran sort_sync_enumerate to its end: on_mount, a tick of the
\* timer, or a delete, a move without conflict or an insert that did not raise
\* (PassTable.insert is called under InsertSpec only)
RanSync ==
    /\ ~hist.raised
    /\ \/ hist.op \in {"mount", "tick", "sync", "delete", "insert"}
       \/ (hist.op = "move" /\ ~hist.conflict)

\* C31: right after any sync the identifiers of the rows are the listing
\* get_categorized_passwords gave it: the same elements in the same order,
\* each once, whatever rows the table held before.
SyncLeavesTheListing ==
    RanSync => /\ RowsAreListing
               /\ Cardinality(Range(Ids(rows))) = Len(rows)

\* a move of two rows went through: the rows it had renamed, unsorted and
\* no longer those of the listing it began with, are the listing again
SyncLeavesTheListingSeen ==
    /\ hist.op = "move"
    /\ ~hist.conflict
    /\ hist.attempts = 2
    /\ Len(rows) >= 2
    /\ RowsAreListing

(* The dialogs of move and delete, with the strings they display kept in   *)
(* the state from the moment they open, while the store changes and the    *)
(* timer ticks underneath them.  Other programs only remove entries here;  *)
(* entries come into the store by the moves.                               *)

MoveShown == MoveOpenStep(TRUE)

DeleteShown == DeleteOpenStep(TRUE)

NextDialog ==
    \/ \E p \in store : ExternalRemove(p)
    \/ Mount
    \/ Timer
    \/ CursorDown
    \/ SelectEntry
    \/ MoveShown
    \/ MoveCancel
    \/ \E dst \in Destinations, keep_cats \in BOOLEAN : MoveConfirm(dst, keep_cats)
    \/ MoveResume
    \/ DeleteShown
    \/ DeleteCancel
    \/ DeleteConfirm
    \/ DeleteResume

DialogSpec == Init /\ [][NextDialog]_vars

\* C32: the entries a confirmed delete, or a confirmed move that found no
\* conflict, goes through are those of the rows the dialog displayed when it
\* was opened, whatever the timer did to the table in between.
ActsOnDisplayedTargets ==
    (/\ hist.op \in {"delete", "move"}
     /\ ~hist.raised
     /\ ~hist.conflict)
        => { row_str(t) : t \in hist.acted } = hist.shown

\* the step leaves the application as it is: at most the store changes
OnlyStoreChanges ==
    /\ UNCHANGED <<pass_dir, rows, cursor, mounted, crashed, dialog>>
    /\ hist' = HistNone

\* C33: while the editor runs nothing happens in the application: a step
\* taken then either is another program changing the store, or is the editor
\* exiting, and leaves the rows, their checkboxes and the cursor as they
\* were; the editor runs on a table that has rows.
EditBlocksTheApplication ==
    [][ Editing => /\ Len(rows) > 0
                   /\ rows' = rows
                   /\ cursor' = cursor
                   /\ \/ OnlyStoreChanges
                      \/ /\ hist'.op = "edit"
                         /\ dialog' = [dialog EXCEPT !.kind = "none"] ]_vars

\* the editor has exited, and the table it returns to is behind the store
EditBlocksTheApplicationSeen ==
    /\ hist.op = "edit"
    /\ Len(rows) >= 2
    /\ ~RowsAreListing

\* C34: the step that closes the delete, move or find dialog, confirmed or
\* not, leaves its result for the worker that opened it, and the worker is
\* resumed with it once and then ends; no worker is left waiting for a result
\* that never comes.
DialogResumesOnce ==
    [][ /\ ( /\ dialog.kind \in {"delete", "move", "find"}
             /\ dialog'.kind = "none"
             /\ ~hist'.raised )
           => (dialog'.result.set /\ ~hist'.suspended)
        /\ ( /\ dialog.result.set
             /\ dialog'.result # dialog.result
             /\ ~hist'.raised )
           => (hist'.resumed = 1 /\ dialog'.worker = "none") ]_vars

-----------------------------------------------------------------------------
(* PassTable.move on its own, with the store changed by another program    *)
(* between the conflict check and the moves.                               *)

\* the stores another program can leave by adding or removing one entry, or
\* doing nothing
Interfered(st) ==
    {st}
    \cup { st \cup {p} : p \in { q \in Universe : Cardinality(st) < MaxEntries } }
    \cup { st \ {p} : p \in st }

\* PassTable.move(dst, keep_cats) applied once to the table drawn, the moves
\* starting from the store st2
MoveRaced(dst, keep_cats, st2) ==
    /\ TableFocused
    /\ hist = HistNone
    /\ LET sel == selected_rows(rows, cursor)
           tup == selected_tuples(rows, cursor)
       IN
       IF sel.raised THEN Crash("move_raced")
       ELSE LET m == move_rows_raced(store, st2, rows, sel.val, tup.val,
                                     dst, keep_cats)
            IN
            /\ store' = m.store
            /\ hist' = [Did("move_raced") EXCEPT
                           !.before = st2,
                           !.acted = IF m.conflict THEN {}
                                     ELSE RowTuples(rows, sel.val),
                           !.dst = dst, !.keep = keep_cats,
                           !.conflict = m.conflict, !.attempts = m.attempts,
                           !.n_fails = m.n_fails]
            /\ IF m.conflict
               THEN UNCHANGED <<rows, cursor>>
               ELSE \E new_passes \in get_categorized_passwords(m.store, pass_dir) :
                       LET r1 == sort_sync_enumerate(m.rows, cursor, new_passes)
                           r2 == sort_sync_enumerate(r1.rows, r1.cursor, new_passes)
                       IN  /\ rows' = r2.rows
                           /\ cursor' = r2.cursor
            /\ UNCHANGED <<pass_dir, mounted, crashed, dialog>>

NextRace ==
    \E dst \in Destinations, keep_cats \in BOOLEAN, st2 \in Interfered(store) :
        MoveRaced(dst, keep_cats, st2)

\* the table shows the store, with any rows checked and the cursor on any row
InitRace == InitSync /\ RowsAreListing

RaceSpec == InitRace /\ [][NextRace]_vars

\* where shutil.move puts the file of the entry t
RealDst(t, dst, keep_cats) ==
    os_path_join(MoveDir(t, dst, keep_cats), os_path_basename(fs_path(t)))

\* the targets of the last move that are not where they were sent from: their
\* file is gone from where it was
MovedAway(ts) == { t \in ts : fs_path(t) \in hist.before /\ fs_path(t) \notin store }

\* C35: a move whose conflict check passed attempts every target; a target
\* whose destination is occupied when its turn comes, by another program's
\* entry or by an earlier target of the batch, is not moved and is counted
\* in n_fails, and its file and the occupying file stay: no entry is lost.
MoveNeverOverwrites ==
    (hist.op = "move_raced" /\ ~hist.raised /\ ~hist.conflict)
        => /\ hist.attempts = Cardinality(hist.acted)
           /\ Cardinality(store) = Cardinality(hist.before)
           /\ hist.n_fails = Cardinality(hist.acted \ MovedAway(hist.acted))
           /\ \A t \in hist.acted :
                 RealDst(t, hist.dst, hist.keep) \in hist.before
                    => /\ RealDst(t, hist.dst, hist.keep) \in store
                       /\ t \notin MovedAway({t})

\* two entries of the same name were sent to a directory that held none of
\* that name at the check and one when the moves began: both are left where
\* they were, and both moves are counted as failed
MoveNeverOverwritesSeen ==
    /\ hist.op = "move_raced"
    /\ ~hist.conflict
    /\ hist.attempts = 2
    /\ hist.n_fails = 2
    /\ \A t \in hist.acted : fs_path(t) \in store
    /\ \E t \in hist.acted : RealDst(t, hist.dst, hist.keep) \in store

-----------------------------------------------------------------------------
(* passutils.rename on its own: any entry, present or not, given any of    *)
(* the new names.                                                          *)

\* the entries renamed: "m" and "x", at the top and under the profile "a"
RenameUniverse ==
    { <<109>>, <<120>> }
    \cup { os_path_join(<<97>>, n) : n \in { <<109>>, <<120>> } }

\* the new names: "m", "x", and "c/x" that names a directory to be made
NewNames == { <<109>>, <<120>>, os_path_join(<<99>>, <<120>>) }

InitRename ==
    /\ pass_dir = <<112>>
    /\ store \in { st \in SUBSET RenameUniverse : Cardinality(st) <= MaxEntries }
    /\ rows = <<>>
    /\ cursor = 0
    /\ mounted = FALSE
    /\ crashed = FALSE
    /\ dialog = NoDialog
    /\ hist = HistNone

\* where rename puts the entry
RenamedPath(t, new_name) == os_path_join(os_path_join(t[1], t[2]), new_name)

\* passutils.rename(pass_tuple, new_name)
RenameStep(pass_tuple, new_name) ==
    /\ Len(RenamedPath(pass_tuple, new_name)) <= MaxPathLen
    /\ LET r == rename(store, pass_tuple, new_name) IN
       /\ store' = r.store
       /\ hist' = [Did("rename") EXCEPT
                      !.target = pass_tuple, !.dst = new_name,
                      !.before = store, !.ok = r.ok]
    /\ UNCHANGED <<pass_dir, rows, cursor, mounted, crashed, dialog>>

NextRename ==
    \E p \in RenameUniverse \cup store, new_name \in NewNames :
        RenameStep(from_str(p), new_name)

RenameSpec == InitRename /\ [][NextRename]_vars

\* C36 as stated: a rename that returns true has left no entry at id and one
\* at (id.profile, id.category, newName); one that returns false has left
\* the store as it was.
RenameReplacesId ==
    hist.op = "rename"
        => IF hist.ok
           THEN /\ fs_path(hist.target) \notin store
                /\ RenamedPath(hist.target, hist.dst) \in store
           ELSE store = hist.before

\* C36, amended: a rename that returns true has left an entry at
\* (id.profile, id.category, newName) and, unless newName is id's own name,
\* none at id; one that returns false has left the store as it was.
RenameMovesId ==
    hist.op = "rename"
        => IF hist.ok
           THEN /\ hist.dst # hist.target[3] => fs_path(hist.target) \notin store
                /\ RenamedPath(hist.target, hist.dst) \in store
           ELSE store = hist.before

\* an entry was renamed into a directory that no entry was in
RenameMovesIdSeen ==
    /\ hist.op = "rename"
    /\ hist.ok
    /\ hist.dst = os_path_join(<<99>>, <<120>>)
    /\ ~DirExists(hist.before, os_path_dirname(RenamedPath(hist.target, hist.dst)))
    /\ RenamedPath(hist.target, hist.dst) \in store
    /\ fs_path(hist.target) \notin store

\* C37: a rename to the name of another entry of the same profile and
\* category returns false and leaves the store as it was.
RenameKeepsOccupant ==
    ( /\ hist.op = "rename"
      /\ RenamedPath(hist.target, hist.dst) \in hist.before
      /\ RenamedPath(hist.target, hist.dst) # fs_path(hist.target) )
        => (~hist.ok /\ store = hist.before)

-----------------------------------------------------------------------------
(* from_str and str() one after the other.                                 *)

\* every segment of the path from_str was given is non-empty
WellFormedPath == \A k \in 1..Len(Segments) : Segments[k] # Empty

\* C38 as stated: str() of what from_str returns for a path whose segments
\* are all non-empty is that path, and from_str of str() of anything from_str
\* returns is that PassTuple again.
ParseFormatInverse ==
    hist.op = "from_str(str)"
        => /\ WellFormedPath => hist.fmt = hist.arg
           /\ hist.back = hist.ret

\* C38, amended: str() of what from_str returns for a path whose segments
\* are all non-empty is that path; and from_str of str() of a PassTuple
\* from_str returns is that PassTuple again when its category is empty or
\* comes with a profile and does not end with a separator (as for every path
\* whose segments are all non-empty).
ParseFormatInverseOnEntries ==
    hist.op = "from_str(str)"
        => /\ WellFormedPath => hist.fmt = hist.arg
           /\ ( \/ hist.ret[2] = Empty
                \/ /\ hist.ret[1] # Empty
                   /\ hist.ret[2][Len(hist.ret[2])] # SepChar )
                 => hist.back = hist.ret
           /\ WellFormedPath
                 => ( \/ hist.ret[2] = Empty
                      \/ /\ hist.ret[1] # Empty
                         /\ hist.ret[2][Len(hist.ret[2])] # SepChar )

\* "a/b/c/d" has gone through from_str, str() and from_str again
ParseFormatInverseOnEntriesSeen ==
    /\ hist.op = "from_str(str)"
    /\ hist.arg = <<97, SepChar, 98, SepChar, 99, SepChar, 100>>
    /\ hist.fmt = hist.arg
    /\ hist.ret = << <<97>>, <<98, SepChar, 99>>, <<100>> >>
    /\ hist.back = hist.ret

=============================================================================
